---- MODULE Spec2Model ----
(***************************************************************************)
(* Model of the durable shared-log subsystem of mcp_agent_messenging:      *)
(* PersistenceManager (persistence.ts), ChatManager (chat-manager.ts) and  *)
(* AgentNamer (agent-namer.ts).                                            *)
(*                                                                         *)
(* A task is one call of atomicUpdateChatRoom; every `await` of the code   *)
(* is a step boundary, so the calls of different OS processes interleave   *)
(* between any two awaits.  The disk (file, lockDir) is the only state the *)
(* processes share.                                                        *)
(***************************************************************************)
EXTENDS Integers, Sequences, FiniteSets, TLC

(* ------------------------------ bounds -------------------------------- *)
\* Retention ceiling used by the model (the program's is 100..50000).
Ceiling == 3
\* Retry budget of lock acquisition used by the model (the program's is 10).
RetryBudget == 1
\* Number of processes of the identity model.
NumIdProcs == 4
\* Number of names in the pool of the identity model (the program's is 50).
PoolSize == 2
\* Last instant of the clock in the specifications where time passes.
MaxNow == 2
\* Longest log handed to saveChatRoom directly.
MaxEntries == 2
\* Calls of loadOrCreateIdentity per process.
MaxCalls == 2
\* Longest generated text of the retention setting.
MaxText == 3
\* Longest content and query of the search model.
MaxContent == 2
\* Number of callers of the mutex model.
NumCallers == 3

(* ------------------------- program constants -------------------------- *)
\* chat-manager.ts: const MAX_MESSAGES = getMessageRetentionLimit()
MAX_MESSAGES == Ceiling
\* chat-manager.ts lines 24, 31, 37, 42: the limits of getMessageRetentionLimit.
DEFAULT_LIMIT == 1000
MIN_LIMIT == 100
MAX_LIMIT == 50000
\* A setting of MCP_MESSAGE_RETENTION_LIMIT: not set (or empty), a text that
\* parseInt turns into NaN, or the text of an integer.
Unset == [kind |-> "unset", value |-> 0]
NotANumber == [kind |-> "text", value |-> 0]
Setting(n) == [kind |-> "int", value |-> n]
\* A retention limit that takes the setting as it is.
getMessageRetentionLimitUnclamped(envLimit) ==
  IF envLimit.kind = "int" THEN envLimit.value ELSE DEFAULT_LIMIT
\* A retention limit that answers a value out of the range with the default.
getMessageRetentionLimitDefaulting(envLimit) ==
  IF envLimit.kind = "int" /\ envLimit.value \in MIN_LIMIT..MAX_LIMIT
    THEN envLimit.value ELSE DEFAULT_LIMIT
\* chat-manager.ts lines 20-46: getMessageRetentionLimit.
getMessageRetentionLimit(envLimit) ==
  IF envLimit.kind = "unset" THEN DEFAULT_LIMIT
  ELSE IF envLimit.kind = "text" THEN DEFAULT_LIMIT
  ELSE IF envLimit.value < MIN_LIMIT THEN MIN_LIMIT
  ELSE IF envLimit.value > MAX_LIMIT THEN MAX_LIMIT
  ELSE envLimit.value
\* The characters of a setting; a text is a sequence of characters.
Digits == << "0", "1", "2", "3", "4", "5", "6", "7", "8", "9" >>
IsDigit(c) == \E i \in 1..10 : Digits[i] = c
DigitValue(c) == (CHOOSE i \in 1..10 : Digits[i] = c) - 1
\* parseInt skips leading white space.
RECURSIVE TrimStart(_)
TrimStart(text) ==
  IF Len(text) > 0 /\ text[1] = " " THEN TrimStart(Tail(text)) ELSE text
\* The longest prefix of digits.
RECURSIVE DigitPrefix(_)
DigitPrefix(text) ==
  IF Len(text) > 0 /\ IsDigit(text[1])
    THEN << text[1] >> \o DigitPrefix(Tail(text))
    ELSE << >>
\* The number written by a sequence of digits.
RECURSIVE Decimal(_)
Decimal(digits) ==
  IF Len(digits) = 0 THEN 0
  ELSE 10 * Decimal(SubSeq(digits, 1, Len(digits) - 1))
         + DigitValue(digits[Len(digits)])
\* parseInt(text, 10) (line 27): white space, an optional sign, then the
\* longest run of digits; NaN when there is no digit at that place.
parseInt(text) ==
  LET t == TrimStart(text)
      signed == Len(t) > 0 /\ t[1] \in {"-", "+"}
      digits == DigitPrefix(IF signed THEN Tail(t) ELSE t)
  IN  IF Len(digits) = 0 THEN [nan |-> TRUE, value |-> 0]
      ELSE [nan |-> FALSE,
            value |-> IF signed /\ t[1] = "-" THEN 0 - Decimal(digits)
                                              ELSE Decimal(digits)]
\* Lines 21-29: the environment variable as getMessageRetentionLimit sees it.
\* !envLimit holds for an unset variable and for the empty text.
ReadEnvLimit(env) ==
  IF ~env.set \/ env.text = << >> THEN Unset
  ELSE IF parseInt(env.text).nan THEN NotANumber
  ELSE Setting(parseInt(env.text).value)
\* persistence.ts: LOCK_OPTIONS.retries.retries
LOCK_RETRIES == RetryBudget
\* agent-namer.ts: GERMAN_NAMES, cut to its first PoolSize names
AllNames == <<"Hans", "Friedrich", "Karl", "Wilhelm", "Otto">>
GERMAN_NAMES == SubSeq(AllNames, 1, IF PoolSize < 5 THEN PoolSize ELSE 5)

\* The room model has two concurrent calls of atomicUpdateChatRoom, each made
\* by an OS process of its own.
Tasks == {1, 2}
ProcOf(t) == t
Procs == {ProcOf(t) : t \in Tasks}
\* The label (myIdentity.name) of a process.
AgentName(p) == AllNames[((p - 1) % 5) + 1]

Rooms == {"r1", "r2"}
Contents == {"A"}

\* pathToFilename (persistence.ts lines 67-72): the SHA-256 hex digest of the
\* project path followed by ".json.gz".  The digest is modelled as a
\* collision-free tag of the path.
Sha256Hex(projectPath) == << "sha256", projectPath >>
\* A file name that is the same for every project path.
pathToFilenameFixed(projectPath) == << << "sha256", "" >>, << "json", "gz" >> >>
\* A file name is its stem and the sequence of its dot-separated extensions.
pathToFilename(projectPath) == << Sha256Hex(projectPath), << "json", "gz" >> >>
\* String.prototype.endsWith('.' + ext) on a file name.
EndsWith(filename, ext) ==
  Len(filename[2]) > 0 /\ filename[2][Len(filename[2])] = ext
\* getFilePath (lines 79-82): the file of a project path in DATA_DIR.
getFilePath(projectPath) == << "data", pathToFilename(projectPath) >>
\* The files of the rooms in DATA_DIR.
FileNames == { getFilePath(r) : r \in Rooms }

(* ----------------------------- the codec ------------------------------ *)
\* An ISO text cut to whole seconds.
toISOStringSeconds(d) == <<"iso", (d \div 1000) * 1000>>

\* Date.prototype.toISOString / new Date(string): a Date holds whole
\* milliseconds and the ISO text carries exactly three fractional digits.
toISOString(d) == <<"iso", d>>
parseDate(s) == s[2]

\* saveChatRoom lines 98-105: one serialized entry.  metadata is copied as it
\* is; JSON.stringify leaves out the key of an entry that has none.
SerializeMessage(msg) ==
  IF "metadata" \in DOMAIN msg
    THEN [ id |-> msg.id, sender |-> msg.sender, content |-> msg.content,
           timestamp |-> toISOString(msg.timestamp), type |-> msg.type,
           metadata |-> msg.metadata ]
    ELSE [ id |-> msg.id, sender |-> msg.sender, content |-> msg.content,
           timestamp |-> toISOString(msg.timestamp), type |-> msg.type ]

\* loadChatRoom lines 143-150: one entry of the parsed JSON.
DeserializeMessage(msg) ==
  IF "metadata" \in DOMAIN msg
    THEN [ id |-> msg.id, sender |-> msg.sender, content |-> msg.content,
           timestamp |-> parseDate(msg.timestamp), type |-> msg.type,
           metadata |-> msg.metadata ]
    ELSE [ id |-> msg.id, sender |-> msg.sender, content |-> msg.content,
           timestamp |-> parseDate(msg.timestamp), type |-> msg.type ]

\* saveChatRoom lines 91-108: the SerializableChatRoom of a ChatRoom.
Serialize(chatRoom) ==
  [ projectPath |-> chatRoom.projectPath,
    messages |-> [ i \in DOMAIN chatRoom.messages |->
                     SerializeMessage(chatRoom.messages[i]) ],
    createdAt |-> toISOString(chatRoom.createdAt),
    lastSeen |-> [ n \in DOMAIN chatRoom.lastSeen |->
                      toISOString(chatRoom.lastSeen[n]) ] ]

\* loadChatRoom lines 139-161: the ChatRoom of a parsed SerializableChatRoom.
Deserialize(data) ==
  [ projectPath |-> data.projectPath,
    messages |-> [ i \in DOMAIN data.messages |->
                     DeserializeMessage(data.messages[i]) ],
    createdAt |-> parseDate(data.createdAt),
    lastSeen |-> [ n \in DOMAIN data.lastSeen |-> parseDate(data.lastSeen[n]) ] ]

\* What a backing file can hold: nothing (no file), the bytes of a write that
\* has been opened with truncation and not completed, or a complete gzip blob.
Absent == [kind |-> "absent"]
Partial == [kind |-> "partial"]
Blob(chatRoom) == [kind |-> "data", gz |-> Serialize(chatRoom)]

\* A pre-creation room that already holds a welcome entry.
EmptyChatRoomWithWelcome(projectPath, time) ==
  [ projectPath |-> projectPath,
    messages |-> << [ id |-> <<0, 0>>, sender |-> "System", content |-> "A",
                      timestamp |-> time, type |-> "system" ] >>,
    createdAt |-> time, lastSeen |-> <<>> ]

\* ChatRoom literal of the pre-creation step (lines 190-195).
EmptyChatRoom(projectPath, time) ==
  [ projectPath |-> projectPath, messages |-> <<>>, createdAt |-> time,
    lastSeen |-> <<>> ]

(* ------------------------- ChatManager.updateFn ----------------------- *)
\* Array.prototype.slice(start) for 0 <= start <= length.
Slice(s, start) == SubSeq(s, start + 1, Len(s))

SystemMessage(t, myName, time) ==
  [ id |-> <<t, 0>>, sender |-> "System",
    content |-> <<"Chat room created by", myName>>,
    timestamp |-> time, type |-> "system" ]

UserMessage(t, myName, content, time) ==
  [ id |-> <<t, 1>>, sender |-> myName, content |-> content,
    timestamp |-> time, type |-> "text" ]

\* Prune with the slice start off by one: one entry too many is kept.
PruneOffByOne(messages) ==
  IF Len(messages) > MAX_MESSAGES
    THEN Slice(messages, Len(messages) - MAX_MESSAGES - 1)
    ELSE messages

\* Prune with its block missing: nothing is dropped.
PruneNever(messages) == messages

\* Prune keeping the oldest MAX_MESSAGES entries: slice(0, MAX_MESSAGES).
PruneKeepsOldest(messages) ==
  IF Len(messages) > MAX_MESSAGES
    THEN SubSeq(messages, 1, MAX_MESSAGES)
    ELSE messages

\* chat-manager.ts lines 140-150: prune old messages.
Prune(messages) ==
  IF Len(messages) > MAX_MESSAGES
    THEN Slice(messages, Len(messages) - MAX_MESSAGES)
    ELSE messages

\* An updateFn that pushes the creation entry whatever the length of the log.
PushedAlwaysSystem(chatRoom, t, myName, content, time) ==
  Append(Append(chatRoom.messages, SystemMessage(t, myName, time)),
         UserMessage(t, myName, content, time))

\* chat-manager.ts lines 112-138: the messages after the two pushes.
Pushed(chatRoom, t, myName, content, time) ==
  LET withSystem == IF Len(chatRoom.messages) = 0
                      THEN Append(chatRoom.messages, SystemMessage(t, myName, time))
                      ELSE chatRoom.messages
  IN  Append(withSystem, UserMessage(t, myName, content, time))

Touch(lastSeen, myName, time) ==
  [ n \in (DOMAIN lastSeen) \cup {myName} |->
      IF n = myName THEN time ELSE lastSeen[n] ]

\* chat-manager.ts lines 112-151: the updateFn of sendMessage.
SendUpdateFn(chatRoom, t, myName, content, time) ==
  [ chatRoom EXCEPT
      !.messages = Prune(Pushed(chatRoom, t, myName, content, time)),
      !.lastSeen = Touch(chatRoom.lastSeen, myName, time) ]

\* chat-manager.ts lines 140-150 in a process whose MAX_MESSAGES is max.
PruneTo(messages, max) ==
  IF Len(messages) > max
    THEN Slice(messages, Len(messages) - max)
    ELSE messages

\* chat-manager.ts lines 112-151 in a process whose MAX_MESSAGES is max.
SendUpdateFnTo(max, chatRoom, t, myName, content, time) ==
  [ chatRoom EXCEPT
      !.messages = PruneTo(Pushed(chatRoom, t, myName, content, time), max),
      !.lastSeen = Touch(chatRoom.lastSeen, myName, time) ]

\* chat-manager.ts lines 177-179: the updateFn of heartbeat.
HeartbeatUpdateFn(chatRoom, myName, time) ==
  [ chatRoom EXCEPT !.lastSeen = Touch(chatRoom.lastSeen, myName, time) ]

(* ------------------------------- state -------------------------------- *)
VARIABLES
  file,       \* disk: Rooms -> Absent | Partial | Blob(chatRoom)
  lockDir,    \* disk: Rooms -> the set (empty or one task) owning <file>.lock
  lockStale,  \* Rooms -> the lock's mtime is older than LOCK_OPTIONS.stale
  now,        \* the clock read by new Date()
  pc,         \* Tasks -> position of the call in atomicUpdateChatRoom
  call,       \* Tasks -> [op, path, content] of the call
  chatRoom,   \* Tasks -> the ChatRoom loaded by the call (local variable)
  release,    \* Tasks -> the local `release` is not null
  attempts,   \* Tasks -> failed lock attempts so far
  pending,    \* Tasks -> the error in flight when the finally block runs
  result,     \* Tasks -> how the call ended
  saves,      \* Tasks -> <<saveChatRoom calls before the lock, after it>>
  released,   \* Tasks -> number of release() calls of the call
  updated,    \* Tasks -> updateFn was called
  acked,      \* message ids returned by sendMessage
  persisted,  \* Rooms -> messages of the last complete log written
  usedNames,  \* identity model: Procs -> AgentNamer.usedNames
  nameIndex,  \* identity model: Procs -> AgentNamer.nameIndex
  idFile,     \* identity model: Procs -> content of the process's IDENTITY_FILE
  idPc,       \* identity model: Procs -> position in loadOrCreateIdentity
  scanned,    \* identity model: Procs -> names read from the identity files
  identity,   \* identity model: Procs -> the name assigned, not yet saved
  idDate,     \* identity model: Procs -> createdAt of the identity in memory
  idFileDate, \* identity model: Procs -> createdAt text in the IDENTITY_FILE
  idResult,   \* identity model: Procs -> identities returned by the calls so far
  idSaves,    \* identity model: Procs -> number of saveIdentity calls
  envLimit,   \* configuration: process.env.MCP_MESSAGE_RETENTION_LIMIT
  maxMessages,\* configuration: what getMessageRetentionLimit returned at load
  myIdentity, \* Tasks -> ChatManager.myIdentity.name, or "null"
  mxCall,     \* mutex model: Callers -> the runExclusive call of the caller
  mxQueue,    \* mutex model: Keys -> the waiters of the key, oldest first
  mxLocked,   \* mutex model: Keys -> the mutex of the key is held
  mxLog,      \* mutex model: Keys -> callers in request order and in run order
  registered, \* namer model: names passed to registerUsedName, not released since
  assigned,   \* namer model: the names returned by assignName, in call order
  loaded      \* what the last loadChatRoom of a reader returned

roomVars == << file, lockDir, lockStale, now, pc, call, chatRoom, release,
               attempts, pending, result, saves, released, updated, acked,
               persisted >>
idCallVars == << idDate, idFileDate, idResult, idSaves >>
idVars == << usedNames, nameIndex, idFile, idPc, scanned, identity, idDate,
            idFileDate, idResult, idSaves >>
namerVars == << registered, assigned >>
readVars == << loaded >>
mutexVars == << mxCall, mxQueue, mxLocked, mxLog >>
extraVars == << envLimit, maxMessages, myIdentity, mxCall, mxQueue, mxLocked,
               mxLog >>
vars == << file, lockDir, lockStale, now, pc, call, chatRoom, release,
           attempts, pending, result, saves, released, updated, acked,
           persisted, usedNames, nameIndex, idFile, idPc, scanned, identity,
           idDate, idFileDate, idResult, idSaves, registered, assigned,
           loaded, envLimit, maxMessages, myIdentity, mxCall, mxQueue,
           mxLocked, mxLog >>

NoCall == [op |-> "none", path |-> "none", content |-> "none"]
NoRoom == [projectPath |-> "none"]

\* The lock is held from the return of lockfile.lock to the return of release().
InLock == {"load", "update", "save", "saveW", "release"}
Active == {"access", "precreate", "precreateW", "lock"} \cup InLock

(* ---------------------- logs already on disk at start ----------------- *)
\* A log written by earlier runs of the program: the creation entry followed
\* by entries of an agent that is no longer running.
OldEntry(i) ==
  IF i = 1
    THEN [ id |-> <<0, 0>>, sender |-> "System",
           content |-> <<"Chat room created by", "Otto">>,
           timestamp |-> 0, type |-> "system" ]
    ELSE [ id |-> <<0, i>>, sender |-> "Otto", content |-> "A",
           timestamp |-> 0, type |-> "text" ]
OldLog(k) == [ i \in 1..k |-> OldEntry(i) ]
OldRoom(r, k) ==
  [ projectPath |-> r, messages |-> OldLog(k), createdAt |-> 0,
    lastSeen |-> IF k > 1 THEN [ n \in {"Otto"} |-> 0 ] ELSE <<>> ]
\* A room that has no file yet, or a log of 0..MAX_MESSAGES entries.
InitFiles(r) == {Absent} \cup { Blob(OldRoom(r, k)) : k \in {0, MAX_MESSAGES - 1, MAX_MESSAGES} }

MessagesOf(f) == IF f.kind = "data" THEN f.gz.messages ELSE <<>>

\* No reader has called loadChatRoom yet.
NotLoaded == [called |-> FALSE, ok |-> TRUE, null |-> TRUE, room |-> NoRoom]

\* The configuration and the managers as the room, identity and namer
\* specifications see them: the module is loaded with the model's ceiling and
\* every ChatManager is initialized.
NoSetting == [set |-> FALSE, text |-> <<>>]
MutexIdle ==
  /\ mxCall = << >>
  /\ mxQueue = << >>
  /\ mxLocked = << >>
  /\ mxLog = << >>
ConfigIdle ==
  /\ envLimit = NoSetting
  /\ maxMessages = [loaded |-> TRUE, value |-> MAX_MESSAGES]
ExtraIdle ==
  /\ ConfigIdle
  /\ myIdentity = [ t \in Tasks |-> AgentName(ProcOf(t)) ]
  /\ MutexIdle

InitDisk(files) ==
  /\ file \in files
  /\ lockDir = [ n \in FileNames |-> {} ]
  /\ lockStale = [ n \in FileNames |-> FALSE ]
  /\ now = 1
  /\ pc = [ t \in Tasks |-> "idle" ]
  /\ call = [ t \in Tasks |-> NoCall ]
  /\ chatRoom = [ t \in Tasks |-> NoRoom ]
  /\ release = [ t \in Tasks |-> FALSE ]
  /\ attempts = [ t \in Tasks |-> 0 ]
  /\ pending = [ t \in Tasks |-> "none" ]
  /\ result = [ t \in Tasks |-> "pending" ]
  /\ saves = [ t \in Tasks |-> <<0, 0>> ]
  /\ released = [ t \in Tasks |-> 0 ]
  /\ updated = [ t \in Tasks |-> FALSE ]
  /\ acked = {}
  /\ persisted = [ n \in FileNames |-> MessagesOf(file[n]) ]
  /\ loaded = NotLoaded

InitRoomWith(files) == InitDisk(files) /\ ExtraIdle

(* ---------------------- PersistenceManager actions -------------------- *)
\* A caller invokes atomicUpdateChatRoom(path, updateFn) (line 178).
Start(t, ops, paths) ==
  /\ pc[t] = "idle"
  /\ \E op \in ops, r \in paths, c \in Contents :
       /\ op # "send" => c = "A"
       /\ call' = [call EXCEPT ![t] = [op |-> op, path |-> r, content |-> c]]
  /\ pc' = [pc EXCEPT ![t] = "access"]
  /\ UNCHANGED << file, lockDir, lockStale, now, chatRoom, release, attempts,
                  pending, result, saves, released, updated, acked, persisted >>
  /\ UNCHANGED << extraVars, idVars, namerVars, readVars >>

\* Lines 186-188: fs.access(filePath).
Access(t) ==
  /\ pc[t] = "access"
  /\ pc' = [pc EXCEPT ![t] =
              IF file[getFilePath(call[t].path)].kind = "absent" THEN "precreate" ELSE "lock"]
  /\ UNCHANGED << file, lockDir, lockStale, now, call, chatRoom, release,
                  attempts, pending, result, saves, released, updated, acked,
                  persisted >>
  /\ UNCHANGED << extraVars, idVars, namerVars, readVars >>

\* fs.writeFile (line 120) opens the file with truncation ...
WriteOpen(t, from, to, slot) ==
  /\ pc[t] = from
  /\ file' = [file EXCEPT ![getFilePath(call[t].path)] = Partial]
  /\ saves' = [saves EXCEPT ![t][slot] = @ + 1]
  /\ pc' = [pc EXCEPT ![t] = to]
  /\ UNCHANGED << lockDir, lockStale, now, call, chatRoom, release, attempts,
                  pending, result, released, updated, acked, persisted >>
  /\ UNCHANGED << extraVars, idVars, namerVars, readVars >>

\* ... and then writes the whole blob.
WriteDone(t, from, to, room) ==
  /\ pc[t] = from
  /\ file' = [file EXCEPT ![getFilePath(call[t].path)] = Blob(room)]
  /\ persisted' = [persisted EXCEPT ![getFilePath(call[t].path)] = MessagesOf(Blob(room))]
  /\ pc' = [pc EXCEPT ![t] = to]
  /\ UNCHANGED << lockDir, lockStale, now, call, chatRoom, release, attempts,
                  pending, result, saves, released, updated, acked >>
  /\ UNCHANGED << extraVars, idVars, namerVars, readVars >>

\* Lines 189-196: saveChatRoom(emptyChatRoom), outside the lock.
PrecreateOpen(t) == WriteOpen(t, "precreate", "precreateW", 1)
PrecreateDone(t) ==
  WriteDone(t, "precreateW", "lock", EmptyChatRoom(call[t].path, now))

\* saveChatRoom rejects (fs.writeFile fails: disk full, I/O error), before or
\* after the file was truncated.  Pre-creation is outside the try block, so
\* its error leaves atomicUpdateChatRoom at once.
PrecreateFail(t) ==
  /\ pc[t] \in {"precreate", "precreateW"}
  /\ saves' = [saves EXCEPT ![t][1] = IF pc[t] = "precreate" THEN @ + 1 ELSE @]
  /\ pc' = [pc EXCEPT ![t] = "done"]
  /\ result' = [result EXCEPT ![t] = "EIO"]
  /\ UNCHANGED << file, lockDir, lockStale, now, call, chatRoom, release,
                  attempts, pending, released, updated, acked, persisted >>
  /\ UNCHANGED << extraVars, idVars, namerVars, readVars >>

\* Line 202, lockfile.lock: proper-lockfile resolves the real path of the file
\* first and fails with ENOENT when there is none; `release` stays null.
LockNoFile(t) ==
  /\ pc[t] = "lock"
  /\ attempts[t] = 0
  /\ file[getFilePath(call[t].path)].kind = "absent"
  /\ pc' = [pc EXCEPT ![t] = "done"]
  /\ result' = [result EXCEPT ![t] = "ENOENT"]
  /\ UNCHANGED << file, lockDir, lockStale, now, call, chatRoom, release,
                  attempts, pending, saves, released, updated, acked, persisted >>
  /\ UNCHANGED << extraVars, idVars, namerVars, readVars >>

\* Line 202: the lock directory is made (mkdir is atomic), or a lock older
\* than LOCK_OPTIONS.stale (line 27) is removed and made anew.
LockAcquire(t) ==
  /\ pc[t] = "lock"
  /\ file[getFilePath(call[t].path)].kind # "absent" \/ attempts[t] > 0
  /\ lockDir[getFilePath(call[t].path)] = {} \/ lockStale[getFilePath(call[t].path)]
  /\ lockDir' = [lockDir EXCEPT ![getFilePath(call[t].path)] = {t}]
  /\ lockStale' = [lockStale EXCEPT ![getFilePath(call[t].path)] = FALSE]
  /\ release' = [release EXCEPT ![t] = TRUE]
  /\ pc' = [pc EXCEPT ![t] = "load"]
  /\ UNCHANGED << file, now, call, chatRoom, attempts, pending, result, saves,
                  released, updated, acked, persisted >>
  /\ UNCHANGED << extraVars, idVars, namerVars, readVars >>

\* Line 202 with LOCK_OPTIONS.retries (lines 22-26): the lock is held and
\* fresh, the attempt fails and is retried.
LockRetry(t) ==
  /\ pc[t] = "lock"
  /\ file[getFilePath(call[t].path)].kind # "absent" \/ attempts[t] > 0
  /\ lockDir[getFilePath(call[t].path)] # {} /\ ~lockStale[getFilePath(call[t].path)]
  /\ attempts[t] < LOCK_RETRIES
  /\ attempts' = [attempts EXCEPT ![t] = @ + 1]
  /\ UNCHANGED << file, lockDir, lockStale, now, pc, call, chatRoom, release,
                  pending, result, saves, released, updated, acked, persisted >>
  /\ UNCHANGED << extraVars, idVars, namerVars, readVars >>

\* lockfile.lock without a retry budget: it never gives up on a held lock.
LockTimeoutNever(t) ==
  /\ pc[t] = "lock"
  /\ FALSE
  /\ UNCHANGED vars

\* Line 202: the retry budget is used up, lockfile.lock rejects with ELOCKED;
\* `release` is still null, the finally block does nothing.
LockTimeout(t) ==
  /\ pc[t] = "lock"
  /\ file[getFilePath(call[t].path)].kind # "absent" \/ attempts[t] > 0
  /\ lockDir[getFilePath(call[t].path)] # {} /\ ~lockStale[getFilePath(call[t].path)]
  /\ attempts[t] = LOCK_RETRIES
  /\ pc' = [pc EXCEPT ![t] = "done"]
  /\ result' = [result EXCEPT ![t] = "ELOCKED"]
  /\ UNCHANGED << file, lockDir, lockStale, now, call, chatRoom, release,
                  attempts, pending, saves, released, updated, acked, persisted >>
  /\ UNCHANGED << extraVars, idVars, namerVars, readVars >>

\* A loadChatRoom that rethrows every error of fs.readFile, ENOENT included.
LoadResultRethrowsAll(f) ==
  CASE f.kind = "data" -> [ok |-> TRUE, room |-> Deserialize(f.gz), null |-> FALSE]
    [] OTHER -> [ok |-> FALSE, room |-> NoRoom, null |-> FALSE]

\* A loadChatRoom whose catch block returns null for every error.
LoadResultNullOnError(f) ==
  CASE f.kind = "data" -> [ok |-> TRUE, room |-> Deserialize(f.gz), null |-> FALSE]
    [] OTHER -> [ok |-> TRUE, room |-> NoRoom, null |-> TRUE]

\* A loadChatRoom that answers a missing file with a fresh empty room.
LoadResultDefault(f) ==
  CASE f.kind = "absent" ->
         [ok |-> TRUE, room |-> EmptyChatRoom("none", 0), null |-> FALSE]
    [] f.kind = "partial" -> [ok |-> FALSE, room |-> NoRoom, null |-> FALSE]
    [] OTHER -> [ok |-> TRUE, room |-> Deserialize(f.gz), null |-> FALSE]

\* loadChatRoom (lines 128-169) of what is on disk: null for no file, an error
\* for a blob that does not gunzip, the ChatRoom otherwise.
LoadResult(f) ==
  CASE f.kind = "absent" -> [ok |-> TRUE, room |-> NoRoom, null |-> TRUE]
    [] f.kind = "partial" -> [ok |-> FALSE, room |-> NoRoom, null |-> FALSE]
    [] OTHER -> [ok |-> TRUE, room |-> Deserialize(f.gz), null |-> FALSE]

\* Lines 205-208: load under the lock; a null room is an error.
Load(t) ==
  /\ pc[t] = "load"
  /\ LET l == LoadResult(file[getFilePath(call[t].path)])
     IN  IF l.ok /\ ~l.null
           THEN /\ chatRoom' = [chatRoom EXCEPT ![t] = l.room]
                /\ pc' = [pc EXCEPT ![t] = "update"]
                /\ UNCHANGED pending
           ELSE /\ pending' = [pending EXCEPT ![t] =
                      IF l.null THEN "Chat room disappeared during lock acquisition"
                                ELSE "corrupt"]
                /\ pc' = [pc EXCEPT ![t] = "release"]
                /\ UNCHANGED chatRoom
  /\ UNCHANGED << file, lockDir, lockStale, now, call, release, attempts,
                  result, saves, released, updated, acked, persisted >>
  /\ UNCHANGED << extraVars, idVars, namerVars, readVars >>

\* An updateFn of a direct caller of atomicUpdateChatRoom that pushes
\* MAX_MESSAGES + 1 entries and does not prune.
BulkEntry(t, i, time) ==
  [ id |-> <<t, i>>, sender |-> "Updater", content |-> "A",
    timestamp |-> time, type |-> "text" ]
BulkUpdateFn(room, t, time) ==
  [ room EXCEPT !.messages =
      @ \o [ i \in 1..(MAX_MESSAGES + 1) |-> BulkEntry(t, i, time) ] ]

\* updateFn applied to a room made anew instead of the room loaded under the
\* lock.
AppliedToFreshRoom(t) ==
  CASE call[t].op = "send" ->
         SendUpdateFn(EmptyChatRoom(call[t].path, now), t,
                      AgentName(ProcOf(t)), call[t].content, now)
    [] call[t].op = "heartbeat" ->
         HeartbeatUpdateFn(EmptyChatRoom(call[t].path, now),
                           AgentName(ProcOf(t)), now)
    [] OTHER -> chatRoom[t]

\* The ChatRoom after updateFn(chatRoom), per kind of updateFn.
Applied(t) ==
  CASE call[t].op = "send" ->
         SendUpdateFn(chatRoom[t], t, AgentName(ProcOf(t)), call[t].content, now)
    [] call[t].op = "sendLimit1" ->
         SendUpdateFnTo(getMessageRetentionLimit(Setting(1)), chatRoom[t], t,
                        AgentName(ProcOf(t)), call[t].content, now)
    [] call[t].op = "heartbeat" ->
         HeartbeatUpdateFn(chatRoom[t], AgentName(ProcOf(t)), now)
    [] call[t].op = "bulk" -> BulkUpdateFn(chatRoom[t], t, now)
    [] OTHER -> chatRoom[t]

\* updateFn called without await: its rejection is not seen by the try block.
UpdateFnNotAwaited(op) == FALSE

\* Line 211: `await updateFn(chatRoom)` rejects exactly when updateFn throws.
UpdateFnThrows(op) == op = "throw"

\* Line 211: await updateFn(chatRoom); an updateFn that throws leaves the try
\* block for the finally block.
Update(t) ==
  /\ pc[t] = "update"
  /\ updated' = [updated EXCEPT ![t] = TRUE]
  /\ IF UpdateFnThrows(call[t].op)
       THEN /\ pending' = [pending EXCEPT ![t] = "Update failed"]
            /\ pc' = [pc EXCEPT ![t] = "release"]
            /\ UNCHANGED chatRoom
       ELSE /\ chatRoom' = [chatRoom EXCEPT ![t] = Applied(t)]
            /\ pc' = [pc EXCEPT ![t] = "save"]
            /\ UNCHANGED pending
  /\ UNCHANGED << file, lockDir, lockStale, now, call, release, attempts,
                  result, saves, released, acked, persisted >>
  /\ UNCHANGED << extraVars, idVars, namerVars, readVars >>

\* Line 214: saveChatRoom(chatRoom) under the lock.
SaveOpen(t) == WriteOpen(t, "save", "saveW", 2)
SaveDone(t) == WriteDone(t, "saveW", "release", chatRoom[t])

\* Line 214: saveChatRoom rejects, before or after the file was truncated.
SaveFail(t) ==
  /\ pc[t] \in {"save", "saveW"}
  /\ saves' = [saves EXCEPT ![t][2] = IF pc[t] = "save" THEN @ + 1 ELSE @]
  /\ pending' = [pending EXCEPT ![t] = "EIO"]
  /\ pc' = [pc EXCEPT ![t] = "release"]
  /\ UNCHANGED << file, lockDir, lockStale, now, call, chatRoom, release,
                  attempts, result, released, updated, acked, persisted >>
  /\ UNCHANGED << extraVars, idVars, namerVars, readVars >>

\* Lines 217-222, the finally block: release() removes the lock directory
\* (proper-lockfile removes <file>.lock without looking at who made it), then
\* the call returns the room or rethrows the pending error.  sendMessage
\* (line 160) returns messageId when the update resolved.
\* release() in the try block instead of the finally block: an error skips it.
ReleaseLockInTry(t) ==
  IF pending[t] = "none"
    THEN /\ lockDir' = [lockDir EXCEPT ![getFilePath(call[t].path)] = {}]
         /\ lockStale' = [lockStale EXCEPT ![getFilePath(call[t].path)] = FALSE]
         /\ released' = [released EXCEPT ![t] = @ + 1]
    ELSE UNCHANGED << lockDir, lockStale, released >>

ReleaseLock(t) ==
  /\ lockDir' = [lockDir EXCEPT ![getFilePath(call[t].path)] = {}]
  /\ lockStale' = [lockStale EXCEPT ![getFilePath(call[t].path)] = FALSE]
  /\ released' = [released EXCEPT ![t] = @ + 1]

Release(t) ==
  /\ pc[t] = "release"
  /\ release[t]
  /\ ReleaseLock(t)
  /\ pc' = [pc EXCEPT ![t] = "done"]
  /\ result' = [result EXCEPT ![t] = IF pending[t] = "none" THEN "ok" ELSE pending[t]]
  /\ acked' = IF pending[t] = "none" /\ call[t].op = "send"
                THEN acked \cup {<<t, 1>>} ELSE acked
  /\ UNCHANGED << file, now, call, chatRoom, release, attempts, pending, saves,
                  updated, persisted >>
  /\ UNCHANGED << extraVars, idVars, namerVars, readVars >>

\* Lines 217-222 when release() rejects (proper-lockfile could not remove the
\* lock directory: an I/O error of rmdir): `await release()` is not inside a
\* try block of its own, so the rejection leaves the finally block and
\* becomes the outcome of the call, whatever was pending.
ReleaseFail(t) ==
  /\ pc[t] = "release"
  /\ release[t]
  /\ released' = [released EXCEPT ![t] = @ + 1]
  /\ pc' = [pc EXCEPT ![t] = "done"]
  /\ result' = [result EXCEPT ![t] = "release failed"]
  /\ UNCHANGED << file, lockDir, lockStale, now, call, chatRoom, release,
                  attempts, pending, saves, updated, acked, persisted >>
  /\ UNCHANGED << extraVars, idVars, namerVars, readVars >>

\* deleteChatRoom (lines 348-358): fs.unlink, ENOENT ignored; no lock is taken.
DeleteChatRoom(r) ==
  /\ file[getFilePath(r)].kind # "absent"
  /\ file' = [file EXCEPT ![getFilePath(r)] = Absent]
  /\ UNCHANGED << lockDir, lockStale, now, pc, call, chatRoom, release,
                  attempts, pending, result, saves, released, updated, acked,
                  persisted >>
  /\ UNCHANGED << extraVars, idVars, namerVars, readVars >>

\* loadChatRoom(r) (lines 128-169) called by a reader (getLastMessages and the
\* other read operations of ChatManager): no lock is taken; fs.readFile sees
\* what is on disk at that moment.
LoadChatRoom(r) ==
  /\ loaded' = [ called |-> TRUE,
                 ok |-> LoadResult(file[getFilePath(r)]).ok,
                 null |-> LoadResult(file[getFilePath(r)]).null,
                 room |-> LoadResult(file[getFilePath(r)]).room ]
  /\ UNCHANGED roomVars
  /\ UNCHANGED << extraVars, idVars, namerVars >>

\* fs.readdir(DATA_DIR) (line 322): the names of the files in the directory.
ReadDir(disk) == { n[2] : n \in { m \in FileNames : disk[m].kind # "absent" } }
\* Lines 329-330: fs.readFile(filePath, 'utf-8') and JSON.parse of the text.
\* A gzip stream is not JSON text, and neither is a truncated file: the only
\* content JSON.parse accepts is plain JSON, which saveChatRoom never writes.
JsonParse(f) ==
  IF f.kind = "json" THEN [ok |-> TRUE, data |-> f.json]
                     ELSE [ok |-> FALSE, data |-> NoRoom]
\* listSavedChatRooms (lines 319-342): the projectPath of every file of the
\* directory whose name ends with '.json' and whose text parses.
listSavedChatRooms(disk) ==
  { JsonParse(disk[<< "data", name >>]).data.projectPath :
      name \in { m \in ReadDir(disk) :
                   EndsWith(m, "json") /\ JsonParse(disk[<< "data", m >>]).ok } }

(* ----------------------- ChatManager read operations ------------------- *)
\* The read operations take what loadChatRoom returned (they rethrow its
\* error; the operators below are for a load that did not fail).
\* Array.prototype.slice(start) for any start >= 0.
SliceFrom(s, start) == IF start >= Len(s) THEN <<>> ELSE SubSeq(s, start + 1, Len(s))
Max(a, b) == IF a >= b THEN a ELSE b

\* A getLastMessages that takes the entries from the front of the log.
getLastMessagesFromFront(l, count) ==
  IF l.null THEN <<>>
  ELSE SubSeq(l.room.messages, 1,
              IF count < Len(l.room.messages) THEN count
                                              ELSE Len(l.room.messages))

\* getLastMessages (chat-manager.ts lines 189-214).
getLastMessages(l, count) ==
  IF l.null THEN <<>>
  ELSE SliceFrom(l.room.messages, Max(0, Len(l.room.messages) - count))

\* Array.prototype.sort() without comparator orders strings by their UTF-16
\* code units: the labels of the model in that order.
SortedLabels == << "Friedrich", "Hans", "Karl", "Otto", "Wilhelm" >>
sort(names) == SelectSeq(SortedLabels, LAMBDA n : n \in names)
\* Line 300: 5 * 60 * 1000 milliseconds.
FIVE_MINUTES == 5 * 60 * 1000

\* getAgentNames (chat-manager.ts lines 289-312); `clock` is the new Date() of
\* line 299.
getAgentNames(l, myName, clock) ==
  IF l.null THEN << myName >>
  ELSE sort({ agentName \in DOMAIN l.room.lastSeen :
                l.room.lastSeen[agentName] > clock - FIVE_MINUTES }
            \cup {myName})

\* getFilteredMessages (lines 222-259).  An option that is not given is a
\* field the record does not have; `clock` is the new Date() of line 247, in
\* milliseconds like every timestamp.
getFilteredMessages(l, options, clock) ==
  IF l.null THEN <<>>
  ELSE
    LET bySince ==
          IF "sinceTimestamp" \in DOMAIN options
            THEN SelectSeq(l.room.messages,
                   LAMBDA m : m.timestamp >= parseDate(options.sinceTimestamp))
            ELSE l.room.messages
        byLast ==
          IF "lastSeconds" \in DOMAIN options
            THEN SelectSeq(bySince,
                   LAMBDA m : m.timestamp >= clock - options.lastSeconds * 1000)
            ELSE bySince
    IN  IF "count" \in DOMAIN options
          THEN SliceFrom(byLast, Max(0, Len(byLast) - options.count))
          ELSE byLast

\* String.prototype.toLowerCase and String.prototype.includes on texts that
\* are sequences of letters.
LowerOf(c) ==
  CASE c = "A" -> "a" [] c = "B" -> "b" [] c = "S" -> "s" [] OTHER -> c
toLowerCase(text) == [ i \in DOMAIN text |-> LowerOf(text[i]) ]
\* String.prototype.toUpperCase: the upper case of the sharp s is two letters.
UpperOf(c) ==
  CASE c = "a" -> << "A" >> [] c = "b" -> << "B" >> [] c = "s" -> << "S" >>
    [] c = "ß" -> << "S", "S" >> [] OTHER -> << c >>
RECURSIVE toUpperCase(_)
toUpperCase(text) ==
  IF Len(text) = 0 THEN << >>
  ELSE UpperOf(text[1]) \o toUpperCase(Tail(text))
includes(text, part) ==
  \E i \in 0..(Len(text) - Len(part)) : SubSeq(text, i + 1, i + Len(part)) = part

\* A search that compares the texts as they are.
searchMessagesCaseSensitive(l, query) ==
  IF l.null THEN <<>>
  ELSE SelectSeq(l.room.messages, LAMBDA m : includes(m.content, query))

\* searchMessages (lines 268-280).
searchMessages(l, query) ==
  IF l.null THEN <<>>
  ELSE SelectSeq(l.room.messages,
         LAMBDA m : includes(toLowerCase(m.content), toLowerCase(query)))

(* ----------------------------- environment ---------------------------- *)
\* The OS process p dies: its calls stop where they are; what they left on
\* disk (a truncated file, the lock directory) stays.
Crash(p) ==
  /\ \E t \in Tasks : ProcOf(t) = p /\ pc[t] \in Active
  /\ pc' = [ t \in Tasks |->
               IF ProcOf(t) = p /\ pc[t] \in Active THEN "crashed" ELSE pc[t] ]
  /\ UNCHANGED << file, lockDir, lockStale, now, call, chatRoom, release,
                  attempts, pending, result, saves, released, updated, acked,
                  persisted >>
  /\ UNCHANGED << extraVars, idVars, namerVars, readVars >>

\* LOCK_OPTIONS.stale (line 27): the lock's mtime has not been refreshed for
\* 10 s, because its holder died or because its holder's event loop did not
\* run for that long (proper-lockfile refreshes from a timer of the holder).
GoStale(r) ==
  /\ lockDir[getFilePath(r)] # {}
  /\ ~lockStale[getFilePath(r)]
  /\ lockStale' = [lockStale EXCEPT ![getFilePath(r)] = TRUE]
  /\ UNCHANGED << file, lockDir, now, pc, call, chatRoom, release, attempts,
                  pending, result, saves, released, updated, acked, persisted >>
  /\ UNCHANGED << extraVars, idVars, namerVars, readVars >>

\* Time passes: a later new Date() reads a later instant.
Tick ==
  /\ now < MaxNow
  /\ now' = now + 1
  /\ UNCHANGED << file, lockDir, lockStale, pc, call, chatRoom, release,
                  attempts, pending, result, saves, released, updated, acked,
                  persisted >>
  /\ UNCHANGED << extraVars, idVars, namerVars, readVars >>

(* --------------------------- specifications --------------------------- *)
IdIdle ==
  /\ usedNames = <<>>
  /\ nameIndex = <<>>
  /\ idFile = <<>>
  /\ idPc = <<>>
  /\ scanned = <<>>
  /\ identity = <<>>
  /\ idDate = <<>>
  /\ idFileDate = <<>>
  /\ idResult = <<>>
  /\ idSaves = <<>>
  /\ registered = {}
  /\ assigned = <<>>

\* ChatManager: sendMessage and heartbeat calls on one project path.
ChatOps == {"send", "heartbeat"}
OneRoom == {"r1"}
\* The disks on which the rooms of `rooms` have a log or no file and the
\* other rooms have no file.
DisksWith(rooms) ==
  { f \in [FileNames -> UNION { InitFiles(r) : r \in Rooms }] :
      \A r \in Rooms :
        f[getFilePath(r)] \in (IF r \in rooms THEN InitFiles(r) ELSE {Absent}) }
FilesOneRoom == DisksWith(OneRoom)

Init == InitRoomWith(FilesOneRoom) /\ IdIdle

Next ==
  \/ \E t \in Tasks : Start(t, ChatOps, OneRoom)
  \/ \E t \in Tasks : Access(t)
  \/ \E t \in Tasks : PrecreateOpen(t)
  \/ \E t \in Tasks : PrecreateDone(t)
  \/ \E t \in Tasks : PrecreateFail(t)
  \/ \E t \in Tasks : LockAcquire(t)
  \/ \E t \in Tasks : LockRetry(t)
  \/ \E t \in Tasks : LockTimeout(t)
  \/ \E t \in Tasks : Load(t)
  \/ \E t \in Tasks : Update(t)
  \/ \E t \in Tasks : SaveOpen(t)
  \/ \E t \in Tasks : SaveDone(t)
  \/ \E t \in Tasks : SaveFail(t)
  \/ \E t \in Tasks : Release(t)
  \/ \E p \in Procs : Crash(p)
  \/ \E r \in OneRoom : GoStale(r)

Spec == Init /\ [][Next]_vars

\* PersistenceManager used directly: atomicUpdateChatRoom with any updateFn
\* (those of ChatManager, one that throws, one that appends without pruning)
\* and deleteChatRoom, on one project path.
AnyOps == {"send", "heartbeat", "throw", "bulk"}

NextAtomic ==
  \/ \E t \in Tasks : Start(t, AnyOps, OneRoom)
  \/ \E t \in Tasks : Access(t)
  \/ \E t \in Tasks : PrecreateOpen(t)
  \/ \E t \in Tasks : PrecreateDone(t)
  \/ \E t \in Tasks : PrecreateFail(t)
  \/ \E t \in Tasks : LockNoFile(t)
  \/ \E t \in Tasks : LockAcquire(t)
  \/ \E t \in Tasks : LockRetry(t)
  \/ \E t \in Tasks : LockTimeout(t)
  \/ \E t \in Tasks : Load(t)
  \/ \E t \in Tasks : Update(t)
  \/ \E t \in Tasks : SaveOpen(t)
  \/ \E t \in Tasks : SaveDone(t)
  \/ \E t \in Tasks : SaveFail(t)
  \/ \E t \in Tasks : Release(t)
  \/ \E r \in OneRoom : DeleteChatRoom(r)
  \/ \E p \in Procs : Crash(p)
  \/ \E r \in OneRoom : GoStale(r)

SpecAtomic == Init /\ [][NextAtomic]_vars

\* As Spec, with every process alive and responsive: no process dies and no
\* held lock goes stale.
NextLive ==
  \/ \E t \in Tasks : Start(t, ChatOps, OneRoom)
  \/ \E t \in Tasks : Access(t)
  \/ \E t \in Tasks : PrecreateOpen(t)
  \/ \E t \in Tasks : PrecreateDone(t)
  \/ \E t \in Tasks : PrecreateFail(t)
  \/ \E t \in Tasks : LockAcquire(t)
  \/ \E t \in Tasks : LockRetry(t)
  \/ \E t \in Tasks : LockTimeout(t)
  \/ \E t \in Tasks : Load(t)
  \/ \E t \in Tasks : Update(t)
  \/ \E t \in Tasks : SaveOpen(t)
  \/ \E t \in Tasks : SaveDone(t)
  \/ \E t \in Tasks : SaveFail(t)
  \/ \E t \in Tasks : Release(t)

SpecLive == Init /\ [][NextLive]_vars

\* ChatManager: sendMessage and heartbeat calls on two project paths, each
\* process on the path of its choice, with every process alive.
NextRooms ==
  \/ \E t \in Tasks : Start(t, ChatOps, Rooms)
  \/ \E t \in Tasks : Access(t)
  \/ \E t \in Tasks : PrecreateOpen(t)
  \/ \E t \in Tasks : PrecreateDone(t)
  \/ \E t \in Tasks : PrecreateFail(t)
  \/ \E t \in Tasks : LockAcquire(t)
  \/ \E t \in Tasks : LockRetry(t)
  \/ \E t \in Tasks : LockTimeout(t)
  \/ \E t \in Tasks : Load(t)
  \/ \E t \in Tasks : Update(t)
  \/ \E t \in Tasks : SaveOpen(t)
  \/ \E t \in Tasks : SaveDone(t)
  \/ \E t \in Tasks : SaveFail(t)
  \/ \E t \in Tasks : Release(t)

InitRooms == InitRoomWith(DisksWith(Rooms)) /\ IdIdle
SpecRooms == InitRooms /\ [][NextRooms]_vars

\* As SpecLive, with a reader that calls loadChatRoom at any moment.
NextRead ==
  \/ \E t \in Tasks : Start(t, ChatOps, OneRoom)
  \/ \E t \in Tasks : Access(t)
  \/ \E t \in Tasks : PrecreateOpen(t)
  \/ \E t \in Tasks : PrecreateDone(t)
  \/ \E t \in Tasks : PrecreateFail(t)
  \/ \E t \in Tasks : LockAcquire(t)
  \/ \E t \in Tasks : LockRetry(t)
  \/ \E t \in Tasks : LockTimeout(t)
  \/ \E t \in Tasks : Load(t)
  \/ \E t \in Tasks : Update(t)
  \/ \E t \in Tasks : SaveOpen(t)
  \/ \E t \in Tasks : SaveDone(t)
  \/ \E t \in Tasks : SaveFail(t)
  \/ \E t \in Tasks : Release(t)
  \/ \E r \in OneRoom : LoadChatRoom(r)

SpecRead == Init /\ [][NextRead]_vars

\* sendMessage calls with processes that die, locks that go stale and a
\* deleteChatRoom at any moment.  A process that is alive keeps running: the
\* next step of its call is eventually taken.  Nothing is assumed of the
\* environment (a lock of a dead process may or may not be seen stale in time).
NextFair ==
  \/ \E t \in Tasks : Start(t, {"send"}, OneRoom)
  \/ \E t \in Tasks : Access(t)
  \/ \E t \in Tasks : PrecreateOpen(t)
  \/ \E t \in Tasks : PrecreateDone(t)
  \/ \E t \in Tasks : PrecreateFail(t)
  \/ \E t \in Tasks : LockNoFile(t)
  \/ \E t \in Tasks : LockAcquire(t)
  \/ \E t \in Tasks : LockRetry(t)
  \/ \E t \in Tasks : LockTimeout(t)
  \/ \E t \in Tasks : Load(t)
  \/ \E t \in Tasks : Update(t)
  \/ \E t \in Tasks : SaveOpen(t)
  \/ \E t \in Tasks : SaveDone(t)
  \/ \E t \in Tasks : SaveFail(t)
  \/ \E t \in Tasks : Release(t)
  \/ \E r \in OneRoom : DeleteChatRoom(r)
  \/ \E p \in Procs : Crash(p)
  \/ \E r \in OneRoom : GoStale(r)

\* The steps of the call t itself.
CallStep(t) ==
  \/ Access(t) \/ PrecreateOpen(t) \/ PrecreateDone(t) \/ PrecreateFail(t)
  \/ LockNoFile(t) \/ LockAcquire(t) \/ LockRetry(t) \/ LockTimeout(t)
  \/ Load(t) \/ Update(t) \/ SaveOpen(t) \/ SaveDone(t) \/ SaveFail(t)
  \/ Release(t)

SpecFair ==
  Init /\ [][NextFair]_vars /\ \A t \in Tasks : WF_vars(CallStep(t))

\* Calls of atomicUpdateChatRoom, with an updateFn that may raise, on a disk
\* where removing the lock directory may fail; every process is alive.
NextRelease ==
  \/ \E t \in Tasks : Start(t, {"send", "throw"}, OneRoom)
  \/ \E t \in Tasks : Access(t)
  \/ \E t \in Tasks : PrecreateOpen(t)
  \/ \E t \in Tasks : PrecreateDone(t)
  \/ \E t \in Tasks : PrecreateFail(t)
  \/ \E t \in Tasks : LockAcquire(t)
  \/ \E t \in Tasks : LockRetry(t)
  \/ \E t \in Tasks : LockTimeout(t)
  \/ \E t \in Tasks : Load(t)
  \/ \E t \in Tasks : Update(t)
  \/ \E t \in Tasks : SaveOpen(t)
  \/ \E t \in Tasks : SaveDone(t)
  \/ \E t \in Tasks : SaveFail(t)
  \/ \E t \in Tasks : Release(t)
  \/ \E t \in Tasks : ReleaseFail(t)

SpecRelease == Init /\ [][NextRelease]_vars

\* As SpecLive, with time passing between the steps.
NextClock ==
  \/ \E t \in Tasks : Start(t, ChatOps, OneRoom)
  \/ \E t \in Tasks : Access(t)
  \/ \E t \in Tasks : PrecreateOpen(t)
  \/ \E t \in Tasks : PrecreateDone(t)
  \/ \E t \in Tasks : PrecreateFail(t)
  \/ \E t \in Tasks : LockAcquire(t)
  \/ \E t \in Tasks : LockRetry(t)
  \/ \E t \in Tasks : LockTimeout(t)
  \/ \E t \in Tasks : Load(t)
  \/ \E t \in Tasks : Update(t)
  \/ \E t \in Tasks : SaveOpen(t)
  \/ \E t \in Tasks : SaveDone(t)
  \/ \E t \in Tasks : SaveFail(t)
  \/ \E t \in Tasks : Release(t)
  \/ Tick

SpecClock == Init /\ [][NextClock]_vars

(* ------------------- saveChatRoom called directly --------------------- *)
\* The rooms handed to saveChatRoom: up to MaxEntries entries with and without
\* metadata (a JSON object, as the tool input delivers it), timestamps that
\* are not whole seconds, and lastSeen maps of zero to two labels.
Times == {1, 1001}
Metadatas == { [level |-> 7], [env |-> 1, level |-> 7] }
ValidEntries ==
  { [ id |-> <<0, i>>, sender |-> AllNames[1], content |-> "A",
      timestamp |-> ts, type |-> "text" ] : i \in 1..2, ts \in Times }
  \cup
  { [ id |-> <<0, i>>, sender |-> AllNames[1], content |-> "A",
      timestamp |-> ts, type |-> "command", metadata |-> md ] :
        i \in {2}, ts \in Times, md \in {[level |-> 7]} }
  \cup
  { [ id |-> <<0, 1>>, sender |-> AllNames[2], content |-> "A",
      timestamp |-> 1, type |-> "notification", metadata |-> md ] :
        md \in Metadatas }
ValidLastSeen ==
  { << >> } \cup { [ n \in {AllNames[1]} |-> ts ] : ts \in Times }
            \cup { [ n \in {AllNames[1], AllNames[2]} |->
                       IF n = AllNames[1] THEN 1001 ELSE 1 ] }
ValidRooms ==
  { [ projectPath |-> r, messages |-> m, createdAt |-> c, lastSeen |-> l ] :
      r \in OneRoom, c \in Times, l \in ValidLastSeen,
      m \in UNION { [1..k -> ValidEntries] : k \in 0..MaxEntries } }

\* A caller hands a room to saveChatRoom (line 88).
SaveChatRoomStart(t, room) ==
  /\ pc[t] = "idle"
  /\ call' = [call EXCEPT ![t] = [op |-> "saveChatRoom",
                                  path |-> room.projectPath, content |-> "A"]]
  /\ chatRoom' = [chatRoom EXCEPT ![t] = room]
  /\ pc' = [pc EXCEPT ![t] = "saveChatRoom"]
  /\ UNCHANGED << file, lockDir, lockStale, now, release, attempts, pending,
                  result, saves, released, updated, acked, persisted >>
  /\ UNCHANGED << extraVars, idVars, namerVars, readVars >>

\* fs.writeFile of saveChatRoom (line 120): truncation, then the whole blob.
SaveChatRoomOpen(t) == WriteOpen(t, "saveChatRoom", "saveChatRoomW", 2)
SaveChatRoomDone(t) == WriteDone(t, "saveChatRoomW", "done", chatRoom[t])

\* saveChatRoom by one caller, loadChatRoom by any reader.
InitCodec == InitRoomWith(DisksWith({})) /\ IdIdle
NextCodec ==
  \/ \E room \in ValidRooms : SaveChatRoomStart(1, room)
  \/ SaveChatRoomOpen(1)
  \/ SaveChatRoomDone(1)
  \/ \E r \in OneRoom : LoadChatRoom(r)
SpecCodec == InitCodec /\ [][NextCodec]_vars

(* ------------------------- deleteChatRoom calls ----------------------- *)
\* A catch block that rethrows every error of fs.unlink.
DeleteCatchRethrowsAll(code) == code

\* The catch block of deleteChatRoom (lines 352-357): ENOENT is swallowed,
\* every other error is rethrown.
DeleteCatch(code) == IF code # "ENOENT" THEN code ELSE "ok"

\* A caller enters deleteChatRoom (lines 348-349).
DeleteStart(t, r) ==
  /\ pc[t] = "idle"
  /\ call' = [call EXCEPT ![t] = [op |-> "deleteChatRoom", path |-> r,
                                  content |-> "A"]]
  /\ pc' = [pc EXCEPT ![t] = "unlink"]
  /\ UNCHANGED << file, lockDir, lockStale, now, chatRoom, release, attempts,
                  pending, result, saves, released, updated, acked, persisted >>
  /\ UNCHANGED << extraVars, idVars, namerVars, readVars >>

\* fs.unlink (line 351) removes the file, or fails with ENOENT when there is
\* none; the call then resolves, or rejects with what the catch block rethrows.
Unlink(t) ==
  /\ pc[t] = "unlink"
  /\ file' = [file EXCEPT ![getFilePath(call[t].path)] = Absent]
  /\ result' = [result EXCEPT ![t] =
        IF file[getFilePath(call[t].path)].kind = "absent"
          THEN DeleteCatch("ENOENT") ELSE "ok"]
  /\ pc' = [pc EXCEPT ![t] = "done"]
  /\ UNCHANGED << lockDir, lockStale, now, call, chatRoom, release, attempts,
                  pending, saves, released, updated, acked, persisted >>
  /\ UNCHANGED << extraVars, idVars, namerVars, readVars >>

\* fs.unlink of an existing file fails for another reason (no permission):
\* the file stays and the error is rethrown.
UnlinkFail(t) ==
  /\ pc[t] = "unlink"
  /\ file[getFilePath(call[t].path)].kind # "absent"
  /\ result' = [result EXCEPT ![t] = DeleteCatch("EACCES")]
  /\ pc' = [pc EXCEPT ![t] = "done"]
  /\ UNCHANGED << file, lockDir, lockStale, now, call, chatRoom, release,
                  attempts, pending, saves, released, updated, acked,
                  persisted >>
  /\ UNCHANGED << extraVars, idVars, namerVars, readVars >>

\* deleteChatRoom calls on the rooms, and a reader.
InitDelete == InitRoomWith(DisksWith(Rooms)) /\ IdIdle
NextDelete ==
  \/ \E t \in Tasks, r \in Rooms : DeleteStart(t, r)
  \/ \E t \in Tasks : Unlink(t)
  \/ \E t \in Tasks : UnlinkFail(t)
  \/ \E r \in Rooms : LoadChatRoom(r)
SpecDelete == InitDelete /\ [][NextDelete]_vars

(* ------------- deleteChatRoom beside updates in flight ---------------- *)
\* sendMessage and heartbeat calls and deleteChatRoom calls on one room.  No
\* update is started once a deleteChatRoom has returned, and the reader calls
\* loadChatRoom after a deleteChatRoom has returned.
DeleteReturned(r) ==
  \E t \in Tasks :
    /\ pc[t] = "done" /\ call[t].op = "deleteChatRoom" /\ call[t].path = r
    /\ result[t] = "ok"
NextDeleteRace ==
  \/ \E t \in Tasks :
       (\A r \in OneRoom : ~DeleteReturned(r)) /\ Start(t, ChatOps, OneRoom)
  \/ \E t \in Tasks, r \in OneRoom : DeleteStart(t, r)
  \/ \E t \in Tasks : Unlink(t)
  \/ \E t \in Tasks : Access(t)
  \/ \E t \in Tasks : PrecreateOpen(t)
  \/ \E t \in Tasks : PrecreateDone(t)
  \/ \E t \in Tasks : LockAcquire(t)
  \/ \E t \in Tasks : Load(t)
  \/ \E t \in Tasks : Update(t)
  \/ \E t \in Tasks : SaveOpen(t)
  \/ \E t \in Tasks : SaveDone(t)
  \/ \E t \in Tasks : Release(t)
  \/ \E r \in OneRoom : DeleteReturned(r) /\ LoadChatRoom(r)
SpecDeleteRace == Init /\ [][NextDeleteRace]_vars

(* --------------- "A" then "B" with the setting 1 ----------------------- *)
\* sendMessage in processes started with MCP_MESSAGE_RETENTION_LIMIT=1, one
\* call after the other: the first call sends "A", the second "B".
StartScenario(t) ==
  /\ pc[t] = "idle"
  /\ \A u \in Tasks \ {t} : pc[u] \in {"idle", "done"}
  /\ call' = [call EXCEPT ![t] =
       [ op |-> "sendLimit1", path |-> "r1",
         content |-> IF \E u \in Tasks : pc[u] = "done" THEN "B" ELSE "A" ]]
  /\ pc' = [pc EXCEPT ![t] = "access"]
  /\ UNCHANGED << file, lockDir, lockStale, now, chatRoom, release, attempts,
                  pending, result, saves, released, updated, acked, persisted >>
  /\ UNCHANGED << extraVars, idVars, namerVars, readVars >>

InitScenario == InitRoomWith(DisksWith({})) /\ IdIdle
NextScenario ==
  \/ \E t \in Tasks : StartScenario(t)
  \/ \E t \in Tasks : Access(t)
  \/ \E t \in Tasks : PrecreateOpen(t)
  \/ \E t \in Tasks : PrecreateDone(t)
  \/ \E t \in Tasks : LockAcquire(t)
  \/ \E t \in Tasks : Load(t)
  \/ \E t \in Tasks : Update(t)
  \/ \E t \in Tasks : SaveOpen(t)
  \/ \E t \in Tasks : SaveDone(t)
  \/ \E t \in Tasks : Release(t)
  \/ \E r \in OneRoom : LoadChatRoom(r)
  \/ Tick
SpecScenario == InitScenario /\ [][NextScenario]_vars

(* ------------------------ searching a stored log ---------------------- *)
\* Contents and queries are texts of up to MaxContent characters: letters in
\* both cases, the sharp s and a digit.
SearchChars == {"a", "A", "s", "S", "ß", "1"}
SearchTexts == UNION { [1..k -> SearchChars] : k \in 1..MaxContent }
SearchQueries == SearchTexts \cup { << >> }
SecondContents == { << "a" >>, << "S", "S" >>, << "1", "ß" >> }
SearchEntry(i, content) ==
  [ id |-> <<0, i>>, sender |-> AllNames[1], content |-> content,
    timestamp |-> 0, type |-> "text" ]
SearchLogs ==
  { << >> } \cup { << SearchEntry(1, c) >> : c \in SearchTexts }
            \cup { << SearchEntry(1, c), SearchEntry(2, d) >> :
                     c \in SearchTexts, d \in SecondContents }
SearchDisks ==
  { [ n \in FileNames |->
        IF n = getFilePath("r1")
          THEN Blob([ projectPath |-> "r1", messages |-> log, createdAt |-> 0,
                      lastSeen |-> << >> ])
          ELSE Absent ] : log \in SearchLogs }

\* searchMessages on a stored log: its loadChatRoom (line 269).
InitSearch == InitRoomWith(SearchDisks) /\ IdIdle
NextSearch == \E r \in OneRoom : LoadChatRoom(r)
SpecSearch == InitSearch /\ [][NextSearch]_vars

(* --------------------------- identity model --------------------------- *)
\* Each process has its own IDENTITY_FILE (persistence.ts line 18) and its own
\* AgentNamer (chat-manager.ts line 56); the identity directory is shared.
IdProcs == 1..NumIdProcs

\* A name is a pool name with a numeric suffix, 0 standing for no suffix:
\* `${baseName}${suffix}` (agent-namer.ts line 39).
PoolName(i) == << GERMAN_NAMES[i], 0 >>
PoolNames == { PoolName(i) : i \in 1..Len(GERMAN_NAMES) }

\* The suffix computed without the + 1: the first round of suffixed names
\* repeats the pool names.
SuffixedNameNoPlusOne(index) ==
  << GERMAN_NAMES[(index % Len(GERMAN_NAMES)) + 1],
     index \div Len(GERMAN_NAMES) >>

\* agent-namer.ts lines 35-39 (persistence.test.ts 565-568): the name of the
\* suffix branch.
SuffixedName(index) ==
  << GERMAN_NAMES[(index % Len(GERMAN_NAMES)) + 1],
     (index \div Len(GERMAN_NAMES)) + 1 >>

\* agent-namer.ts assignName: the names it can return (Math.random picks any
\* available pool name).
AssignableNames(used, index) ==
  IF Cardinality(used) >= Len(GERMAN_NAMES)
    THEN { SuffixedName(index) }
    ELSE PoolNames \ used

InitIdentity ==
  /\ usedNames = [ p \in IdProcs |-> {} ]
  /\ nameIndex = [ p \in IdProcs |-> 0 ]
  /\ idFile = [ p \in IdProcs |-> {} ]
  /\ idPc = [ p \in IdProcs |-> "start" ]
  /\ scanned = [ p \in IdProcs |-> {} ]
  /\ identity = [ p \in IdProcs |-> {} ]
  /\ idDate = [ p \in IdProcs |-> 0 ]
  /\ idFileDate = [ p \in IdProcs |-> <<>> ]
  /\ idResult = [ p \in IdProcs |-> <<>> ]
  /\ idSaves = [ p \in IdProcs |-> 0 ]
  /\ registered = {}
  /\ assigned = <<>>

\* A readFile of IDENTITY_FILE that fails with ENOENT on every call.
IdentityFileNeverFound(p) == FALSE

\* Line 264: fs.readFile(IDENTITY_FILE) finds the file.
IdentityFileExists(p) == idFile[p] # {}

\* loadOrCreateIdentity lines 263-272: the process's own identity file does
\* not exist yet (ENOENT).
IdReadOwn(p) ==
  /\ idPc[p] = "start"
  /\ ~IdentityFileExists(p)
  /\ idPc' = [idPc EXCEPT ![p] = "scan"]
  /\ UNCHANGED << usedNames, nameIndex, idFile, scanned, identity >>
  /\ UNCHANGED idCallVars
  /\ UNCHANGED << extraVars, roomVars, namerVars, readVars >>

\* getUsedNamesFromIdentityFiles (lines 229-255): the names in the identity
\* files of all processes.
IdScan(p) ==
  /\ idPc[p] = "scan"
  /\ scanned' = [scanned EXCEPT ![p] = UNION { idFile[q] : q \in IdProcs }]
  /\ idPc' = [idPc EXCEPT ![p] = "register"]
  /\ UNCHANGED << usedNames, nameIndex, idFile, identity >>
  /\ UNCHANGED idCallVars
  /\ UNCHANGED << extraVars, roomVars, namerVars, readVars >>

\* Lines 275-277: namer.registerUsedName(name) for every name found.
IdRegister(p) ==
  /\ idPc[p] = "register"
  /\ usedNames' = [usedNames EXCEPT ![p] = @ \cup scanned[p]]
  /\ idPc' = [idPc EXCEPT ![p] = "assign"]
  /\ UNCHANGED << nameIndex, idFile, scanned, identity >>
  /\ UNCHANGED idCallVars
  /\ UNCHANGED << extraVars, roomVars, namerVars, readVars >>

\* Line 280: namer.assignName().
IdAssign(p) ==
  /\ idPc[p] = "assign"
  /\ \E name \in AssignableNames(usedNames[p], nameIndex[p]) :
       /\ identity' = [identity EXCEPT ![p] = {name}]
       /\ usedNames' = [usedNames EXCEPT ![p] = @ \cup {name}]
  /\ nameIndex' = [nameIndex EXCEPT ![p] =
        IF Cardinality(usedNames[p]) >= Len(GERMAN_NAMES) THEN @ + 1 ELSE @]
  /\ idDate' = [idDate EXCEPT ![p] = now]
  /\ idPc' = [idPc EXCEPT ![p] = "save"]
  /\ UNCHANGED << idFile, scanned, idFileDate, idResult, idSaves >>
  /\ UNCHANGED << extraVars, roomVars, namerVars, readVars >>

\* Lines 283-284: saveIdentity(identity) writes the process's IDENTITY_FILE
\* (name and createdAt.toISOString()), and the identity is returned.
IdSave(p) ==
  /\ idPc[p] = "save"
  /\ idFile' = [idFile EXCEPT ![p] = identity[p]]
  /\ idFileDate' = [idFileDate EXCEPT ![p] = toISOString(idDate[p])]
  /\ idSaves' = [idSaves EXCEPT ![p] = @ + 1]
  /\ idResult' = [idResult EXCEPT ![p] =
        Append(@, [ name |-> CHOOSE n \in identity[p] : TRUE,
                    createdAt |-> idDate[p] ])]
  /\ idPc' = [idPc EXCEPT ![p] = "done"]
  /\ UNCHANGED << usedNames, nameIndex, scanned, identity, idDate >>
  /\ UNCHANGED << extraVars, roomVars, namerVars, readVars >>

NoFiles == { [ n \in FileNames |-> Absent ] }
InitId == InitRoomWith(NoFiles) /\ InitIdentity

\* Processes that run loadOrCreateIdentity in any interleaving.
NextIdentity ==
  \/ \E p \in IdProcs : IdReadOwn(p)
  \/ \E p \in IdProcs : IdScan(p)
  \/ \E p \in IdProcs : IdRegister(p)
  \/ \E p \in IdProcs : IdAssign(p)
  \/ \E p \in IdProcs : IdSave(p)

SpecIdentity == InitId /\ [][NextIdentity]_vars

\* Processes that run loadOrCreateIdentity one after the other: a process
\* starts only when no other process is inside loadOrCreateIdentity.
IdReadOwnAlone(p) ==
  /\ \A q \in IdProcs : idPc[q] \in {"start", "done"}
  /\ IdReadOwn(p)

NextIdentitySeq ==
  \/ \E p \in IdProcs : IdReadOwnAlone(p)
  \/ \E p \in IdProcs : IdScan(p)
  \/ \E p \in IdProcs : IdRegister(p)
  \/ \E p \in IdProcs : IdAssign(p)
  \/ \E p \in IdProcs : IdSave(p)

SpecIdentitySeq == InitId /\ [][NextIdentitySeq]_vars

\* loadOrCreateIdentity lines 264-269: the identity file exists; the call
\* returns its name and new Date(data.createdAt).
IdReadBack(p) ==
  /\ idPc[p] = "start"
  /\ IdentityFileExists(p)
  /\ idResult' = [idResult EXCEPT ![p] =
        Append(@, [ name |-> CHOOSE n \in idFile[p] : TRUE,
                    createdAt |-> parseDate(idFileDate[p]) ])]
  /\ idPc' = [idPc EXCEPT ![p] = "done"]
  /\ UNCHANGED << usedNames, nameIndex, idFile, scanned, identity, idDate,
                  idFileDate, idSaves >>
  /\ UNCHANGED << extraVars, roomVars, namerVars, readVars >>

\* A process whose call has returned calls loadOrCreateIdentity again
\* (chat-manager.ts line 67), while no process is inside the function.
IdCallAgain(p) ==
  /\ idPc[p] = "done"
  /\ \A q \in IdProcs : idPc[q] \in {"start", "done"}
  /\ Len(idResult[p]) < MaxCalls
  /\ idPc' = [idPc EXCEPT ![p] = "start"]
  /\ UNCHANGED << usedNames, nameIndex, idFile, scanned, identity >>
  /\ UNCHANGED idCallVars
  /\ UNCHANGED << extraVars, roomVars, namerVars, readVars >>

\* Processes that call loadOrCreateIdentity up to MaxCalls times each, one
\* call after the other; the processes are started in the order of their
\* numbers and time passes once every process has its identity.
NextIdentityAgain ==
  \/ \E p \in IdProcs : (\A q \in 1..(p - 1) : idSaves[q] >= 1) /\ IdReadOwnAlone(p)
  \/ \E p \in IdProcs : IdScan(p)
  \/ \E p \in IdProcs : IdRegister(p)
  \/ \E p \in IdProcs : IdAssign(p)
  \/ \E p \in IdProcs : IdSave(p)
  \/ \E p \in IdProcs : IdCallAgain(p)
  \/ \E p \in IdProcs : IdReadBack(p)
  \/ (\A q \in IdProcs : idPc[q] = "done") /\ Tick

SpecIdentityAgain == InitId /\ [][NextIdentityAgain]_vars

(* ------------------- ChatManager before initialize -------------------- *)
\* chat-manager.ts line 57: myIdentity is null until initialize assigns it.
NullIdentity == "null"
NotInitializedError == "ChatManager not initialized"

\* A guard that lets every call through.
NotInitializedNever(myId) == FALSE

\* Lines 78, 99 and 171: if (!this.myIdentity).
NotInitialized(myId) == myId = NullIdentity

\* `${baseName}${suffix}` as the room model writes labels: the base name when
\* there is no suffix.
LabelOf(name) == IF name[2] = 0 THEN name[1] ELSE name

\* The processes have run before: each finds its IDENTITY_FILE, written by
\* its earlier run; no ChatManager is initialized.
InitManager ==
  /\ InitDisk(FilesOneRoom) /\ ConfigIdle /\ MutexIdle
  /\ myIdentity = [ t \in Tasks |-> NullIdentity ]
  /\ usedNames = [ p \in IdProcs |-> {} ]
  /\ nameIndex = [ p \in IdProcs |-> 0 ]
  /\ idFile = [ p \in IdProcs |->
                  IF p \in Procs THEN { << AgentName(p), 0 >> } ELSE {} ]
  /\ idPc = [ p \in IdProcs |-> "start" ]
  /\ scanned = [ p \in IdProcs |-> {} ]
  /\ identity = [ p \in IdProcs |-> {} ]
  /\ idDate = [ p \in IdProcs |-> 0 ]
  /\ idFileDate = [ p \in IdProcs |->
                      IF p \in Procs THEN toISOString(0) ELSE <<>> ]
  /\ idResult = [ p \in IdProcs |-> <<>> ]
  /\ idSaves = [ p \in IdProcs |-> 0 ]
  /\ registered = {}
  /\ assigned = <<>>

\* initialize (lines 63-71): loadOrCreateIdentity has resolved and its result
\* is assigned to this.myIdentity.
InitializeDone(t) ==
  /\ NotInitialized(myIdentity[t])
  /\ idPc[ProcOf(t)] = "done"
  /\ myIdentity' = [myIdentity EXCEPT
        ![t] = LabelOf(idResult[ProcOf(t)][Len(idResult[ProcOf(t)])].name)]
  /\ UNCHANGED << envLimit, maxMessages, mutexVars >>
  /\ UNCHANGED << roomVars, idVars, namerVars, readVars >>

\* sendMessage (lines 99-101), heartbeat (171-173) or getMyName (78-80) on a
\* manager whose myIdentity is null: the call throws before anything else.
CallUninitialized(t, op) ==
  /\ pc[t] = "idle"
  /\ NotInitialized(myIdentity[t])
  /\ result' = [result EXCEPT ![t] = NotInitializedError]
  /\ UNCHANGED << file, lockDir, lockStale, now, pc, call, chatRoom, release,
                  attempts, pending, saves, released, updated, acked,
                  persisted >>
  /\ UNCHANGED << extraVars, idVars, namerVars, readVars >>

\* getMyName (lines 77-82) on an initialized manager returns the name.
GetMyName(t) ==
  /\ pc[t] = "idle"
  /\ ~NotInitialized(myIdentity[t])
  /\ result' = [result EXCEPT ![t] = myIdentity[t]]
  /\ UNCHANGED << file, lockDir, lockStale, now, pc, call, chatRoom, release,
                  attempts, pending, saves, released, updated, acked,
                  persisted >>
  /\ UNCHANGED << extraVars, idVars, namerVars, readVars >>

\* Managers that are called before, while and after initialize runs; an
\* initialized manager's sendMessage and heartbeat enter atomicUpdateChatRoom.
NextManager ==
  \/ \E p \in Procs : IdReadBack(p)
  \/ \E t \in Tasks : InitializeDone(t)
  \/ \E t \in Tasks, op \in ChatOps \cup {"getMyName"} : CallUninitialized(t, op)
  \/ \E t \in Tasks : GetMyName(t)
  \/ \E t \in Tasks :
       ~NotInitialized(myIdentity[t]) /\ Start(t, ChatOps, OneRoom)
  \/ \E t \in Tasks : Access(t)
  \/ \E t \in Tasks : PrecreateOpen(t)
  \/ \E t \in Tasks : PrecreateDone(t)
  \/ \E t \in Tasks : LockAcquire(t)
  \/ \E t \in Tasks : Load(t)
  \/ \E t \in Tasks : Update(t)
  \/ \E t \in Tasks : SaveOpen(t)
  \/ \E t \in Tasks : SaveDone(t)
  \/ \E t \in Tasks : Release(t)
SpecManager == InitManager /\ [][NextManager]_vars

(* -------------------------- configuration ----------------------------- *)
\* The settings tried: no variable, every text of up to MaxText characters of
\* EnvChars, and the texts around the upper limit.
EnvChars == {" ", "-", "0", "1", "5", "x"}
LongTexts == { << "5", "0", "0", "0", "0" >>, << "5", "0", "0", "0", "1" >>,
               << "4", "9", "9", "9", "9" >>,
               << "9", "9", "9", "9", "9", "9", "9", "9" >>,
               << "-", "5", "0", "0", "0", "0" >> }
EnvSettings ==
  { NoSetting } \cup
  { [set |-> TRUE, text |-> x] :
      x \in LongTexts \cup UNION { [1..k -> EnvChars] : k \in 0..MaxText } }

\* chat-manager.ts line 48: const MAX_MESSAGES = getMessageRetentionLimit(),
\* evaluated once when the module is loaded.
LoadModule ==
  /\ ~maxMessages.loaded
  /\ maxMessages' = [loaded |-> TRUE,
                     value |-> getMessageRetentionLimit(ReadEnvLimit(envLimit))]
  /\ UNCHANGED << envLimit, myIdentity, mutexVars >>
  /\ UNCHANGED << roomVars, idVars, namerVars, readVars >>

InitConfig ==
  /\ InitDisk(NoFiles) /\ IdIdle
  /\ envLimit \in EnvSettings
  /\ maxMessages = [loaded |-> FALSE, value |-> 0]
  /\ myIdentity = [ t \in Tasks |-> "null" ]
  /\ MutexIdle
NextConfig == LoadModule
SpecConfig == InitConfig /\ [][NextConfig]_vars

(* ----------------------------- namer model ---------------------------- *)
\* One AgentNamer used directly: assignName, registerUsedName and releaseName
\* in any order.  Each runs inside lock.runExclusive and has no await in its
\* body, so each is one step.
MaxAssigns == 4
Namers == {1}
\* Names a caller registers or releases: the pool names, a suffixed name and
\* a name outside the pool.
ExternalNames == PoolNames \cup { << GERMAN_NAMES[1], 1 >>, << "TestName", 0 >> }

InitNamer ==
  /\ usedNames = [ n \in Namers |-> {} ]
  /\ nameIndex = [ n \in Namers |-> 0 ]
  /\ idFile = <<>>
  /\ idPc = <<>>
  /\ scanned = <<>>
  /\ identity = <<>>
  /\ idDate = <<>>
  /\ idFileDate = <<>>
  /\ idResult = <<>>
  /\ idSaves = <<>>
  /\ registered = {}
  /\ assigned = <<>>

\* assignName (persistence.test.ts lines 561-582).
AssignName(n) ==
  /\ Len(assigned) < MaxAssigns
  /\ \E name \in AssignableNames(usedNames[n], nameIndex[n]) :
       /\ usedNames' = [usedNames EXCEPT ![n] = @ \cup {name}]
       /\ assigned' = Append(assigned, name)
  /\ nameIndex' = [nameIndex EXCEPT ![n] =
        IF Cardinality(usedNames[n]) >= Len(GERMAN_NAMES) THEN @ + 1 ELSE @]
  /\ UNCHANGED << idFile, idPc, scanned, identity, registered >>
  /\ UNCHANGED idCallVars
  /\ UNCHANGED << extraVars, roomVars, readVars >>

\* registerUsedName(name) (lines 588-592).
RegisterUsedName(n, name) ==
  /\ usedNames' = [usedNames EXCEPT ![n] = @ \cup {name}]
  /\ registered' = registered \cup {name}
  /\ UNCHANGED << nameIndex, idFile, idPc, scanned, identity, assigned >>
  /\ UNCHANGED idCallVars
  /\ UNCHANGED << extraVars, roomVars, readVars >>

\* releaseName(name) (lines 598-602).
ReleaseName(n, name) ==
  /\ usedNames' = [usedNames EXCEPT ![n] = @ \ {name}]
  /\ registered' = registered \ {name}
  /\ UNCHANGED << nameIndex, idFile, idPc, scanned, identity, assigned >>
  /\ UNCHANGED idCallVars
  /\ UNCHANGED << extraVars, roomVars, readVars >>

InitNamerOnly == InitRoomWith(NoFiles) /\ InitNamer

NextNamer ==
  \/ \E n \in Namers : AssignName(n)
  \/ \E n \in Namers, name \in ExternalNames : RegisterUsedName(n, name)
  \/ \E n \in Namers, name \in ExternalNames : ReleaseName(n, name)

SpecNamer == InitNamerOnly /\ [][NextNamer]_vars

\* A namer whose names are never released.
NextNamerGrow ==
  \/ \E n \in Namers : AssignName(n)
  \/ \E n \in Namers, name \in ExternalNames : RegisterUsedName(n, name)

SpecNamerGrow == InitNamerOnly /\ [][NextNamerGrow]_vars

(* ----------------------------- mutex model ---------------------------- *)
\* AsyncLock.runExclusive as section 4.5 of the specification describes it:
\* a caller that finds the mutex of its key free takes it and runs fn; one
\* that finds it held joins the waiters of the key; when fn returns or
\* raises the mutex passes to the oldest waiter, or becomes free.
Callers == 1..NumCallers
\* The AgentNamer of a process has one AsyncLock ("namer"); "other" is the
\* mutex of another key.
Keys == {"namer", "other"}
NamerOps == {"assignName", "registerUsedName", "releaseName"}
KeyOf(op) == IF op \in NamerOps THEN "namer" ELSE "other"
NoMxCall ==
  [ pc |-> "idle", op |-> "none", throws |-> FALSE, waited |-> FALSE,
    seen |-> {}, result |-> "pending" ]

\* An AgentNamer whose releaseName does not go through the lock.
UsesLockExceptRelease(op) == op # "releaseName"

\* agent-namer.ts (persistence.test.ts lines 562, 589, 599): each of the three
\* methods passes its whole body to this.lock.runExclusive; so does the
\* caller of the other key.
UsesLock(op) == TRUE

\* The waiter that gets the mutex next: the one that asked first.
NextWaiter(queue) == Head(queue)

\* The bodies passed to runExclusive (lines 563-581, 590, 600) on the
\* usedNames of the namer; `name` is the argument, or the name that
\* assignName picks.
BodyUsedNames(op, used, name) ==
  CASE op = "assignName" -> used \cup {name}
    [] op = "registerUsedName" -> used \cup {name}
    [] op = "releaseName" -> used \ {name}
    [] OTHER -> used
BodyNameIndex(op, used, index) ==
  IF op = "assignName" /\ Cardinality(used) >= Len(GERMAN_NAMES)
    THEN index + 1 ELSE index
BodyNames(op, used, index) ==
  IF op = "assignName" THEN AssignableNames(used, index) ELSE { PoolName(1) }

InitMutex ==
  /\ InitDisk(NoFiles) /\ InitNamer /\ ConfigIdle
  /\ myIdentity = [ t \in Tasks |-> AgentName(ProcOf(t)) ]
  /\ mxCall = [ c \in Callers |-> NoMxCall ]
  /\ mxQueue = [ k \in Keys |-> << >> ]
  /\ mxLocked = [ k \in Keys |-> FALSE ]
  /\ mxLog = [ k \in Keys |-> [requested |-> << >>, ran |-> << >>] ]

\* runExclusive(fn) is called: fn starts at once when the mutex is free (or
\* when the call does not go through the mutex), else the caller waits.
MxRequest(c, op, throws) ==
  /\ mxCall[c].pc = "idle"
  /\ \A d \in 1..(c - 1) : mxCall[d].pc # "idle"
  /\ throws => op = "fn"
  /\ LET k == KeyOf(op)
         starts == ~UsesLock(op) \/ ~mxLocked[k]
     IN  /\ mxCall' = [mxCall EXCEPT ![c] =
               [ pc |-> IF starts THEN "running" ELSE "waiting",
                 op |-> op, throws |-> throws, waited |-> ~starts,
                 seen |-> usedNames[1], result |-> "pending" ]]
         /\ mxLocked' = [mxLocked EXCEPT ![k] = @ \/ UsesLock(op)]
         /\ mxQueue' = [mxQueue EXCEPT ![k] =
               IF starts THEN @ ELSE Append(@, c)]
         /\ mxLog' = [mxLog EXCEPT
               ![k].requested = Append(@, c),
               ![k].ran = IF starts THEN Append(@, c) ELSE @]
  /\ UNCHANGED << envLimit, maxMessages, myIdentity >>
  /\ UNCHANGED << roomVars, idVars, namerVars, readVars >>

\* fn returns or raises; the finally part of runExclusive passes the mutex to
\* the oldest waiter, whose fn starts, or frees it.
MxFinish(c) ==
  /\ mxCall[c].pc = "running"
  /\ LET op == mxCall[c].op
         k == KeyOf(op)
         passes == UsesLock(op) /\ Len(mxQueue[k]) > 0
         next == IF passes THEN NextWaiter(mxQueue[k]) ELSE c
     IN  \E name \in BodyNames(op, usedNames[1], nameIndex[1]) :
           /\ usedNames' = [usedNames EXCEPT
                 ![1] = BodyUsedNames(op, @, name)]
           /\ nameIndex' = [nameIndex EXCEPT
                 ![1] = BodyNameIndex(op, usedNames[1], @)]
           /\ mxCall' = [ d \in Callers |->
                 IF d = c
                   THEN [ mxCall[c] EXCEPT
                            !.pc = "done",
                            !.result = IF mxCall[c].throws
                                         THEN "raised" ELSE "ok" ]
                 ELSE IF passes /\ d = next
                   THEN [ mxCall[d] EXCEPT
                            !.pc = "running",
                            !.seen = BodyUsedNames(op, usedNames[1], name) ]
                 ELSE mxCall[d] ]
           /\ mxQueue' = [mxQueue EXCEPT ![k] =
                 IF passes THEN SelectSeq(@, LAMBDA d : d # next) ELSE @]
           /\ mxLocked' = [mxLocked EXCEPT ![k] =
                 IF UsesLock(op) THEN passes ELSE @]
           /\ mxLog' = [mxLog EXCEPT ![k].ran =
                 IF passes THEN Append(@, next) ELSE @]
  /\ UNCHANGED << idFile, idPc, scanned, identity, idCallVars >>
  /\ UNCHANGED << envLimit, maxMessages, myIdentity >>
  /\ UNCHANGED << roomVars, namerVars, readVars >>

NextMutex ==
  \/ \E c \in Callers, op \in NamerOps \cup {"fn"}, throws \in BOOLEAN :
       MxRequest(c, op, throws)
  \/ \E c \in Callers : MxFinish(c)
SpecMutex == InitMutex /\ [][NextMutex]_vars

(* ------------------------------- claims ------------------------------- *)
Ids(messages) == { messages[i].id : i \in DOMAIN messages }
Occurrences(messages, id) == Cardinality({ i \in DOMAIN messages : messages[i].id = id })
AllSendsOk ==
  \A t \in Tasks : pc[t] = "done" /\ result[t] = "ok" /\ call[t].op = "send"

\* C1: when every task is a sendMessage call on the same path that returned
\* successfully, and the calls together append fewer entries than the ceiling
\* after any one of them (a call appends at most two), the persisted log holds
\* the message of every call exactly once.
C1_NoUpdateLost ==
  (AllSendsOk /\ 2 * (Cardinality(Tasks) - 1) < MAX_MESSAGES) =>
     \A t \in Tasks :
        /\ <<t, 1>> \in acked
        /\ file[getFilePath(call[t].path)].kind = "data"
        /\ Occurrences(MessagesOf(file[getFilePath(call[t].path)]), <<t, 1>>) = 1

\* C2: every step that changes a backing file is a step of the task that holds
\* the lock on that file and is inside its lock-held section.
C2_WritesOnlyUnderLock ==
  [][ \A r \in Rooms :
        file'[getFilePath(r)] # file[getFilePath(r)] =>
          \E t \in Tasks : /\ lockDir[getFilePath(r)] = {t}
                           /\ call[t].path = r
                           /\ pc[t] \in InLock
                           /\ pc'[t] # pc[t] ]_vars

\* C3: at most one live call is between lock acquisition and lock release for
\* the same backing file.
C3_MutualExclusion ==
  \A r \in Rooms :
     Cardinality({ t \in Tasks : pc[t] \in InLock /\ call[t].path = r }) <= 1

C6_RetentionInvariant ==
  \A r \in Rooms :
     file[getFilePath(r)].kind = "data" => Len(MessagesOf(file[getFilePath(r)])) <= MAX_MESSAGES

\* C6 witness: a sendMessage returned and the log on disk is full and has lost
\* its first entry.
C6_Witness ==
  \E t \in Tasks :
     /\ pc[t] = "done" /\ result[t] = "ok" /\ call[t].op = "send"
     /\ file[getFilePath(call[t].path)].kind = "data"
     /\ Len(MessagesOf(file[getFilePath(call[t].path)])) = MAX_MESSAGES
     /\ <<0, 0>> \notin Ids(MessagesOf(file[getFilePath(call[t].path)]))
     /\ <<t, 1>> \in Ids(MessagesOf(file[getFilePath(call[t].path)]))

\* C7: when the updateFn of sendMessage runs on a loaded log that is full, the
\* log it leaves is the loaded log without its first entry followed by the new
\* message: the last MAX_MESSAGES entries in their order.
C7_PruneKeepsNewest ==
  [][ \A t \in Tasks :
        ( /\ pc[t] = "update" /\ pc'[t] = "save" /\ call[t].op = "send"
          /\ Len(chatRoom[t].messages) >= MAX_MESSAGES ) =>
          LET old == chatRoom[t].messages
              new == chatRoom'[t].messages
              drop == Len(old) + 1 - MAX_MESSAGES
          IN  /\ Len(new) = MAX_MESSAGES
              /\ new[MAX_MESSAGES].id = <<t, 1>>
              /\ \A i \in 1..(MAX_MESSAGES - 1) : new[i] = old[drop + i] ]_vars

\* C7 witness: sendMessage's updateFn has pruned a full log.
C7_Witness ==
  \E t \in Tasks :
     /\ pc[t] = "save" /\ call[t].op = "send"
     /\ Len(chatRoom[t].messages) = MAX_MESSAGES
     /\ chatRoom[t].messages[1].id = <<0, 2>>
     /\ chatRoom[t].messages[MAX_MESSAGES].id = <<t, 1>>

IsSuffixPlusNew(old, new) ==
  \E k \in 0..Len(old) :
     LET kept == Len(old) - k
     IN  /\ kept <= Len(new)
         /\ SubSeq(new, 1, kept) = SubSeq(old, k + 1, Len(old))
         /\ \A i \in (kept + 1)..Len(new) : new[i].id \notin Ids(old)
         /\ k > 0 => Len(new) = MAX_MESSAGES

\* C9: every complete log written to a room is the previous complete log of
\* the room, front-truncated only at the ceiling, followed by new entries.
C9_MonotoneLog ==
  [][ \A r \in Rooms : IsSuffixPlusNew(persisted[getFilePath(r)], persisted'[getFilePath(r)]) ]_vars

\* C10: the labels in the identity files of any two processes differ.
C10_LabelsDistinct ==
  \A p, q \in IdProcs :
     (p # q /\ idFile[p] # {} /\ idFile[q] # {}) => idFile[p] # idFile[q]

\* C11: assignName never returns a name that is registered through
\* registerUsedName and not released since.
C11_NeverAssignsRegistered ==
  [][ Len(assigned') > Len(assigned) =>
        assigned'[Len(assigned')] \notin registered ]_vars

\* C12: without releaseName, every name assignName returns differs from all
\* names it returned before, and once every pool name is used the name is a
\* pool name with a numeric suffix.
IsSuffixed(name) == name[2] >= 1 /\ << name[1], 0 >> \in PoolNames
C12_DistinctThenSuffixed ==
  [][ Len(assigned') > Len(assigned) =>
        LET name == assigned'[Len(assigned')]
        IN  /\ \A i \in DOMAIN assigned : assigned[i] # name
            /\ (\A n \in Namers : PoolNames \subseteq usedNames[n]) => IsSuffixed(name) ]_vars
C12_Witness ==
  /\ \A n \in Namers : PoolNames \subseteq usedNames[n]
  /\ \E i \in DOMAIN assigned : assigned[i] \in PoolNames
  /\ \E i \in DOMAIN assigned : IsSuffixed(assigned[i])
  /\ \A i, j \in DOMAIN assigned : i # j => assigned[i] # assigned[j]

\* C13: what loadChatRoom returns for a project path holds that path, entries
\* pushed only by calls made on that path, and lastSeen marks only of agents
\* that called on that path (or that the log held before the calls).
ReadOf(r) == LoadResult(file[getFilePath(r)])
C13_Isolation ==
  \A r \in Rooms :
    ReadOf(r).ok /\ ~ReadOf(r).null =>
      /\ ReadOf(r).room.projectPath = r
      /\ \A t \in Tasks :
           (\E k \in {0, 1} : <<t, k>> \in Ids(ReadOf(r).room.messages)) =>
             call[t].path = r
      /\ \A n \in DOMAIN ReadOf(r).room.lastSeen :
           \/ n \in DOMAIN OldRoom(r, MAX_MESSAGES).lastSeen
           \/ \E t \in Tasks : AgentName(ProcOf(t)) = n /\ call[t].path = r
C13_Witness ==
  \E t, u \in Tasks :
    /\ call[t].path = "r1" /\ call[u].path = "r2"
    /\ call[t].op = "send" /\ call[u].op = "send"
    /\ result[t] = "ok" /\ result[u] = "ok"
    /\ <<t, 1>> \in Ids(ReadOf("r1").room.messages)
    /\ <<u, 1>> \in Ids(ReadOf("r2").room.messages)
    /\ AgentName(ProcOf(t)) \in DOMAIN ReadOf("r1").room.lastSeen
    /\ AgentName(ProcOf(u)) \notin DOMAIN ReadOf("r1").room.lastSeen

\* C14: a call that finds no file when it loads under the lock goes straight
\* to the finally block with 'Chat room disappeared during lock acquisition':
\* it has not called updateFn, makes no save under the lock, does not touch
\* the file, releases the lock once and rejects with that error.
Disappeared == "Chat room disappeared during lock acquisition"
C15_ReadsCompleteLog ==
  loaded.called =>
    /\ loaded.ok
    /\ ~loaded.null => Len(loaded.room.messages) <= MAX_MESSAGES

\* C16: after a successful sendMessage on a path, with the file of the path a
\* complete log, listSavedChatRooms returns that path.
C16_ListsEverySavedRoom ==
  \A t \in Tasks :
    ( /\ pc[t] = "done" /\ result[t] = "ok" /\ call[t].op = "send"
      /\ file[getFilePath(call[t].path)].kind = "data" ) =>
        call[t].path \in listSavedChatRooms(file)

\* C17: every call of atomicUpdateChatRoom whose process stays alive
\* eventually completes, with a result or an error, whatever the other
\* process does (holds the lock, dies holding it, deletes the file).
C17_EveryCallCompletes ==
  \A t \in Tasks : (pc[t] \in Active) ~> (pc[t] \in {"done", "crashed"})
C17_Witness ==
  \E t, u \in Tasks :
    /\ pc[u] = "crashed" /\ release[u] /\ released[u] = 0
    /\ pc[t] = "done" /\ result[t] = "ELOCKED" /\ attempts[t] = LOCK_RETRIES

\* C18: a call that ended with the lock-acquisition error after the whole
\* retry budget has not loaded the room, not called updateFn, made no save,
\* called no release(), and the log holds what the lock holder persisted.
C18_LockTimeoutTouchesNothing ==
  \A t \in Tasks :
    (pc[t] = "done" /\ result[t] = "ELOCKED") =>
      /\ attempts[t] = LOCK_RETRIES
      /\ chatRoom[t] = NoRoom /\ ~updated[t]
      /\ ~release[t] /\ released[t] = 0
      /\ saves[t] = <<0, 0>>
      /\ \A u \in Tasks \ {t} :
           (pc[u] = "done" /\ result[u] = "ok" /\ call[u].op = "send") =>
             <<u, 1>> \in Ids(MessagesOf(file[getFilePath(call[u].path)]))

\* C19: when a process died holding the lock and never released it, a call of
\* another process that found the lock held, acquired it afterwards (the lock
\* had gone stale) and met no write error completes successfully.
C19_ReclaimCompletes ==
  \A t, u \in Tasks :
    ( /\ pc[u] = "crashed" /\ release[u] /\ released[u] = 0
      /\ pc[t] = "done" /\ release[t] /\ attempts[t] > 0
      /\ result[t] # "EIO" ) =>
        result[t] = "ok"

\* C20: a call that acquired the lock ends with the error raised by updateFn
\* or saveChatRoom when there is one, and successfully otherwise, also when
\* release() failed.
C20_ReleaseFailureIgnored ==
  \A t \in Tasks :
    (pc[t] = "done" /\ release[t]) =>
      result[t] = (IF pending[t] = "none" THEN "ok" ELSE pending[t])

\* C21: a call holds no room before it has the lock; the room it loads is the
\* one on disk while it is between lockfile.lock and release(); updateFn is
\* applied to that room; the save writes the room updateFn left; a call ends
\* successfully only from the finally block, after one save under the lock
\* and one release(), and the room it returns is the room it saved.
C21_StepsInOrder ==
  [][ \A t \in Tasks :
        /\ pc[t] \in {"access", "precreate", "precreateW", "lock"} =>
             chatRoom[t] = NoRoom /\ ~release[t]
        /\ (pc[t] = "lock" /\ pc'[t] # "lock") =>
             pc'[t] \in {"load", "done", "crashed"}
        /\ (pc[t] = "load" /\ pc'[t] = "update") =>
             /\ release[t] /\ released[t] = 0
             /\ chatRoom'[t] = LoadResult(file[getFilePath(call[t].path)]).room
        /\ (pc[t] = "update" /\ pc'[t] = "save") =>
             chatRoom'[t] =
               (IF call[t].op = "send"
                  THEN SendUpdateFn(chatRoom[t], t, AgentName(ProcOf(t)),
                                    call[t].content, now)
                  ELSE HeartbeatUpdateFn(chatRoom[t], AgentName(ProcOf(t)), now))
        /\ (pc[t] = "saveW" /\ pc'[t] = "release" /\ pending'[t] = "none") =>
             /\ file'[getFilePath(call[t].path)] = Blob(chatRoom[t])
             /\ chatRoom'[t] = chatRoom[t]
             /\ released[t] = 0
        /\ (pc[t] # "done" /\ pc'[t] = "done" /\ result'[t] = "ok") =>
             /\ pc[t] = "release"
             /\ updated[t] /\ saves[t][2] = 1
             /\ released[t] = 0 /\ released'[t] = 1
             /\ chatRoom'[t] = chatRoom[t] ]_vars
C21_Witness ==
  \E t \in Tasks :
    /\ pc[t] = "done" /\ result[t] = "ok" /\ call[t].op = "send"
    /\ saves[t] = <<0, 1>> /\ released[t] = 1
    /\ file[getFilePath(call[t].path)] = Blob(chatRoom[t])
    /\ Len(chatRoom[t].messages) = MAX_MESSAGES

\* C22: a call that finds no file goes to the pre-creation step, which
\* persists a room with no messages and an empty lastSeen before the call has
\* the lock; when the call then succeeds it has saved exactly twice, and,
\* with no other call on the room, the log holds exactly what updateFn did to
\* the empty room.
RoomOnDisk(f) == Deserialize(f.gz)
C22_PrecreateThenLock ==
  [][ \A t \in Tasks :
        /\ ( /\ pc[t] = "access" /\ pc'[t] # "access"
             /\ file[getFilePath(call[t].path)].kind = "absent" ) =>
               pc'[t] = "precreate"
        /\ (pc[t] = "precreateW" /\ pc'[t] = "lock") =>
               /\ ~release[t] /\ saves[t] = <<1, 0>>
               /\ file'[getFilePath(call[t].path)].kind = "data"
               /\ RoomOnDisk(file'[getFilePath(call[t].path)]).messages = <<>>
               /\ RoomOnDisk(file'[getFilePath(call[t].path)]).lastSeen = <<>>
               /\ RoomOnDisk(file'[getFilePath(call[t].path)]).projectPath = call[t].path
        /\ ( /\ pc[t] # "done" /\ pc'[t] = "done" /\ result'[t] = "ok"
             /\ saves[t][1] = 1 ) =>
               /\ saves'[t] = <<1, 1>>
               /\ (\A u \in Tasks \ {t} : pc[u] = "idle") =>
                    LET room == RoomOnDisk(file'[getFilePath(call[t].path)])
                    IN  /\ DOMAIN room.lastSeen = {AgentName(ProcOf(t))}
                        /\ room.messages =
                             (IF call[t].op = "send"
                                THEN << SystemMessage(t, AgentName(ProcOf(t)), now),
                                        UserMessage(t, AgentName(ProcOf(t)),
                                                    call[t].content, now) >>
                                ELSE <<>>) ]_vars
C22_Witness ==
  \E t \in Tasks :
    /\ pc[t] = "done" /\ result[t] = "ok" /\ call[t].op = "send"
    /\ saves[t] = <<1, 1>>
    /\ \A u \in Tasks \ {t} : pc[u] = "idle"
    /\ Len(MessagesOf(file[getFilePath(call[t].path)])) = 2

\* C23: createdAt is the same in every persisted state of a room: the
\* createdAt of the complete log on disk is the createdAt of every room a
\* call loaded from that file.
C23_CreatedAtFixed ==
  \A t \in Tasks :
    ( /\ chatRoom[t] # NoRoom
      /\ file[getFilePath(call[t].path)].kind = "data" ) =>
        RoomOnDisk(file[getFilePath(call[t].path)]).createdAt = chatRoom[t].createdAt

\* C24: loadChatRoom of a path that has no file returns null without an
\* error; getLastMessages, getFilteredMessages and searchMessages then return
\* an empty list, and the read leaves the path without a file.
ReadCounts == {0, 1, 10}
ReadOptions ==
  { <<>>, [count |-> 10], [lastSeconds |-> 1],
    [sinceTimestamp |-> toISOString(0), count |-> 1] }
ReadQueries == { <<>>, <<"A">>, <<"a", "b">> }
C24_MissingRoomReadsEmpty ==
  [][ \A r \in OneRoom :
        ( /\ loaded' # loaded
          /\ file[getFilePath(r)].kind = "absent" ) =>
            /\ loaded'.ok /\ loaded'.null
            /\ \A c \in ReadCounts : getLastMessages(loaded', c) = <<>>
            /\ \A o \in ReadOptions : getFilteredMessages(loaded', o, now) = <<>>
            /\ \A q \in ReadQueries : searchMessages(loaded', q) = <<>>
            /\ file' = file ]_vars
C24_Witness ==
  /\ loaded.called /\ loaded.ok /\ loaded.null
  /\ \A r \in Rooms : file[getFilePath(r)].kind = "absent"
  /\ getLastMessages(loaded, 10) = <<>>

\* C25: loadChatRoom of a file that does not decode raises an error: a reader
\* gets neither null nor a room, and a call that loads such a file under the
\* lock goes to the finally block with that error, without calling updateFn
\* and without saving, and rejects with it.
C25_DecodeFailureIsRaised ==
  [][ /\ \A r \in OneRoom :
           (loaded' # loaded /\ file[getFilePath(r)].kind = "partial") =>
             ~loaded'.ok /\ ~loaded'.null /\ loaded'.room = NoRoom
      /\ \A t \in Tasks :
           /\ ( /\ pc[t] = "load" /\ pc'[t] # "load"
                /\ file[getFilePath(call[t].path)].kind = "partial" ) =>
                  /\ pc'[t] = "release" /\ pending'[t] = "corrupt"
                  /\ chatRoom'[t] = NoRoom
                  /\ file' = file
           /\ pending'[t] = "corrupt" =>
                  ~updated'[t] /\ saves'[t][2] = 0
           /\ (pending[t] = "corrupt" /\ pc[t] # "done" /\ pc'[t] = "done") =>
                  result'[t] = "corrupt" /\ released'[t] = 1 ]_vars
C25_Witness ==
  /\ loaded.called /\ ~loaded.ok /\ ~loaded.null
  /\ \E t \in Tasks :
       /\ pc[t] = "done" /\ result[t] = "corrupt"
       /\ ~updated[t] /\ saves[t][2] = 0

C27_DeleteRemovesFile ==
  [][ /\ \A t \in Tasks :
           (pc[t] = "unlink" /\ pc'[t] = "done") =>
             /\ result'[t] = "ok" =>
                  /\ file'[getFilePath(call[t].path)] = Absent
                  /\ \A n \in FileNames \ {getFilePath(call[t].path)} :
                       file'[n] = file[n]
                  /\ LoadResult(file'[getFilePath(call[t].path)]).ok
                  /\ LoadResult(file'[getFilePath(call[t].path)]).null
             /\ file[getFilePath(call[t].path)] = Absent =>
                  result'[t] = "ok" /\ file' = file
             /\ result'[t] # "ok" =>
                  result'[t] = "EACCES" /\ file' = file
      /\ ( /\ loaded' # loaded
           /\ \A q \in Rooms : file[getFilePath(q)] = Absent ) =>
             loaded'.ok /\ loaded'.null ]_vars
C27_Witness ==
  /\ \E t \in Tasks :
       /\ pc[t] = "done" /\ result[t] = "ok"
       /\ persisted[getFilePath(call[t].path)] # <<>>
       /\ file[getFilePath(call[t].path)] = Absent
  /\ \E t \in Tasks :
       /\ pc[t] = "done" /\ result[t] = "EACCES"
       /\ file[getFilePath(call[t].path)] # Absent
  /\ loaded.called /\ loaded.null

\* C28: no step of a heartbeat call changes the entries stored at the room's
\* path, and its updateFn leaves the entries, createdAt and the lastSeen
\* value of every other label of the loaded room as they were.
C28_HeartbeatTouchesOnlyLastSeen ==
  [][ \A t \in Tasks :
        (call[t].op = "heartbeat" /\ pc'[t] # pc[t]) =>
          /\ persisted'[getFilePath(call[t].path)] =
               persisted[getFilePath(call[t].path)]
          /\ (chatRoom[t] # NoRoom /\ chatRoom'[t] # NoRoom) =>
               /\ chatRoom'[t].messages = chatRoom[t].messages
               /\ chatRoom'[t].createdAt = chatRoom[t].createdAt
               /\ \A n \in DOMAIN chatRoom[t].lastSeen :
                    n # AgentName(ProcOf(t)) =>
                      /\ n \in DOMAIN chatRoom'[t].lastSeen
                      /\ chatRoom'[t].lastSeen[n] = chatRoom[t].lastSeen[n] ]_vars

\* Both calls of the scenario have resolved.
ScenarioDone ==
  /\ \A t \in Tasks : pc[t] = "done" /\ result[t] = "ok"
  /\ \A t \in Tasks : call[t].op = "sendLimit1"
\* getLastMessages(r, 10) on the disk of the current state.
Recent10 == getLastMessages(LoadResult(file[getFilePath("r1")]), 10)
\* C29: after "A" and then "B" are sent to a fresh room by processes whose
\* retention setting is 1, getLastMessages(r, 10) returns exactly one entry,
\* whose content is "B".
C29_OnlyBRemains ==
  ScenarioDone => Len(Recent10) = 1 /\ Recent10[1].content = "B"
\* C29 (amended): the setting 1 is below the minimum, so the ceiling in force
\* is MIN_LIMIT and nothing is pruned: getLastMessages(r, 10) returns the
\* creation entry, "A" and "B", in this order.
C29_SettingOneIsClamped ==
  ScenarioDone =>
    /\ getMessageRetentionLimit(Setting(1)) = MIN_LIMIT
    /\ Len(Recent10) = 3
    /\ Recent10[1].type = "system" /\ Recent10[1].sender = "System"
    /\ Recent10[2].content = "A" /\ Recent10[2].type = "text"
    /\ Recent10[3].content = "B" /\ Recent10[3].type = "text"
C29_Witness ==
  /\ ScenarioDone
  /\ Len(Recent10) = 3
  /\ Recent10[3].content = "B"

\* C30: in every process the identity file is written at most once, every
\* call of loadOrCreateIdentity returns the name and createdAt of the first
\* call, which are those in the process's identity file, and once the first
\* call has returned no step assigns a name in the process or changes its
\* identity file.
C30_IdentityCreatedOnce ==
  [][ \A p \in IdProcs :
        /\ idSaves'[p] <= 1
        /\ \A i \in 1..Len(idResult'[p]) :
             /\ idResult'[p][i] = idResult'[p][1]
             /\ idFile'[p] = { idResult'[p][i].name }
             /\ idFileDate'[p] = toISOString(idResult'[p][i].createdAt)
        /\ Len(idResult[p]) >= 1 =>
             /\ usedNames'[p] = usedNames[p] /\ nameIndex'[p] = nameIndex[p]
             /\ identity'[p] = identity[p]
             /\ idFile'[p] = idFile[p] /\ idFileDate'[p] = idFileDate[p]
             /\ idSaves'[p] = idSaves[p] ]_vars
C30_Witness ==
  \E p \in IdProcs :
    /\ idPc[p] = "done"
    /\ Len(idResult[p]) >= 2
    /\ idResult[p][2] = idResult[p][1]
    /\ now > idResult[p][1].createdAt
    /\ idSaves[p] = 1

\* A text without any digit, and a text that is an integer in decimal.
NonNumeric(text) == \A i \in 1..Len(text) : ~IsDigit(text[i])
IsIntegerText(text) ==
  /\ Len(text) > 0
  /\ \/ \A i \in 1..Len(text) : IsDigit(text[i])
     \/ /\ Len(text) > 1 /\ text[1] = "-"
        /\ \A i \in 2..Len(text) : IsDigit(text[i])
OutOfRange(env) ==
  /\ env.set /\ IsIntegerText(env.text)
  /\ parseInt(env.text).value \notin MIN_LIMIT..MAX_LIMIT
ContainsIgnoringCase(content, query) ==
  \E i \in 0..(Len(content) - Len(query)) :
    \A j \in 1..Len(query) : LowerOf(content[i + j]) = LowerOf(query[j])
MatchesOf(l, query) ==
  SelectSeq(l.room.messages, LAMBDA m : ContainsIgnoringCase(m.content, query))
\* Every character of the text is the lower case of its upper case.
CaseRoundTrips(text) == toLowerCase(toUpperCase(text)) = toLowerCase(text)
\* C33: for every stored log and every query, searchMessages returns the
\* same entries for the query in upper case and in lower case, and these
\* are exactly the entries whose content holds the query when case is
\* ignored, in log order.
C33_SearchIgnoresCase ==
  (loaded.called /\ loaded.ok /\ ~loaded.null) =>
    \A q \in SearchQueries :
      /\ searchMessages(loaded, toUpperCase(q)) =
           searchMessages(loaded, toLowerCase(q))
      /\ searchMessages(loaded, q) = MatchesOf(loaded, q)
\* C33 (amended): searchMessages returns, in log order, exactly the entries
\* whose lower-cased content holds the lower-cased query; the query in upper
\* case gives the same entries as the query in lower case whenever lower-
\* casing the upper-cased query gives the lower-cased query.
C33_SearchComparesLowerCase ==
  (loaded.called /\ loaded.ok /\ ~loaded.null) =>
    \A q \in SearchQueries :
      /\ searchMessages(loaded, q) = MatchesOf(loaded, q)
      /\ searchMessages(loaded, toLowerCase(q)) = searchMessages(loaded, q)
      /\ CaseRoundTrips(q) =>
           searchMessages(loaded, toUpperCase(q)) =
             searchMessages(loaded, toLowerCase(q))
C33_Witness ==
  /\ loaded.called /\ loaded.ok /\ ~loaded.null
  /\ Len(loaded.room.messages) = 2
  /\ loaded.room.messages[1].content = << "1", "S" >>
  /\ loaded.room.messages[2].content = << "a" >>
  /\ searchMessages(loaded, << "A" >>) = << loaded.room.messages[2] >>
  /\ searchMessages(loaded, << "s" >>) = << loaded.room.messages[1] >>

\* The callers that are inside fn under the key.
Running(k) == { c \in Callers : mxCall[c].pc = "running" /\ KeyOf(mxCall[c].op) = k }
IsPrefix(a, b) == Len(a) <= Len(b) /\ SubSeq(b, 1, Len(a)) = a
C35_DeletedRoomStaysDeleted ==
  loaded.called => loaded.ok /\ loaded.null

\* The positions of the 'Chat room created by' entries of a log.
CreationEntries(messages) ==
  { i \in 1..Len(messages) :
      /\ messages[i].sender = "System" /\ messages[i].type = "system"
      /\ messages[i].content[1] = "Chat room created by" }
\* C36: every log has at most one 'Chat room created by' entry, and it is
\* the first entry; the updateFn of sendMessage puts a creation entry naming
\* the caller before the user's entry when the log it was given is empty, and
\* adds no creation entry otherwise, whoever created the file.
C36_OneCreationEntryFirst ==
  /\ [](/\ \A n \in FileNames :
            CreationEntries(MessagesOf(file[n])) \subseteq {1}
        /\ \A t \in Tasks :
            pc[t] \in {"save", "saveW"} =>
              CreationEntries(chatRoom[t].messages) \subseteq {1})
  /\ [][ \A t \in Tasks :
           (pc[t] = "update" /\ pc'[t] = "save" /\ call[t].op = "send") =>
             IF chatRoom[t].messages = << >>
               THEN /\ Len(chatRoom'[t].messages) = 2
                    /\ CreationEntries(chatRoom'[t].messages) = {1}
                    /\ chatRoom'[t].messages[1].content[2] = AgentName(ProcOf(t))
                    /\ chatRoom'[t].messages[2].sender = AgentName(ProcOf(t))
               ELSE \A i \in CreationEntries(chatRoom'[t].messages) :
                      \E j \in CreationEntries(chatRoom[t].messages) :
                        chatRoom'[t].messages[i] = chatRoom[t].messages[j] ]_vars
\* A heartbeat created the file; the sendMessage of the other process found
\* the empty log and its creation entry is the first of the two stored entries.
C36_Witness ==
  \E t, u \in Tasks :
    /\ call[t].op = "heartbeat" /\ pc[t] = "done" /\ saves[t][1] = 1
    /\ call[u].op = "send" /\ pc[u] = "done" /\ saves[u][1] = 0
    /\ \E n \in FileNames :
         /\ Len(MessagesOf(file[n])) = 2
         /\ CreationEntries(MessagesOf(file[n])) = {1}
         /\ MessagesOf(file[n])[1].id = << u, 0 >>

\* The positions of the entries of a log that carry the id.
EntriesWithId(messages, id) == { i \in 1..Len(messages) : messages[i].id = id }
\* C37: when sendMessage returns, the id it returns is the id of exactly one
\* entry of the log stored at the room's path, and that entry carries the
\* caller's label, the given content and the given type; the ids returned by
\* different calls are different.
C37_ReturnedIdIsStored ==
  [][ \A t \in Tasks :
        (pc[t] = "release" /\ pc'[t] = "done" /\ result'[t] = "ok"
           /\ call[t].op = "send") =>
          LET stored == MessagesOf(file'[getFilePath(call[t].path)])
          IN  /\ << t, 1 >> \in acked' \ acked
              /\ Cardinality(EntriesWithId(stored, << t, 1 >>)) = 1
              /\ \A i \in EntriesWithId(stored, << t, 1 >>) :
                   /\ stored[i].sender = AgentName(ProcOf(t))
                   /\ stored[i].content = call[t].content
                   /\ stored[i].type = "text" ]_vars

\* The labels of the processes that may ask: those of the writers and that of
\* a process that only reads.
Askers == { AgentName(ProcOf(t)) : t \in Tasks } \cup {"Karl"}
Range(seq) == { seq[i] : i \in DOMAIN seq }
\* C38: after a sendMessage or heartbeat of a process has succeeded in a
\* room, every getAgentNames of the room that answers within five minutes
\* lists that process's label, whoever asks.
C38_ActiveWritersAreListed ==
  [][ \A r \in OneRoom, t \in Tasks :
        ( /\ loaded' # loaded /\ loaded'.ok
          /\ pc[t] = "done" /\ result[t] = "ok"
          /\ call[t].op \in ChatOps /\ call[t].path = r
          /\ now < FIVE_MINUTES ) =>
          \A myName \in Askers :
            AgentName(ProcOf(t)) \in Range(getAgentNames(loaded', myName, now))
    ]_vars

\* The counts handed to getLastMessages: negative, zero, below, at and above
\* the longest log.
LastCounts == (0 - 1)..(MAX_MESSAGES + 1)
\* C39: getLastMessages(r, count) of a room that loads returns the last
\* min(count, n) entries of the n entries stored at that moment, in the order
\* of the log, and nothing for a count of zero or less or for a room without
\* file; the call leaves the file as it is.
C39_LastMessagesExact ==
  [][ \A r \in OneRoom :
        (loaded' # loaded /\ loaded'.ok) =>
          LET stored == MessagesOf(file[getFilePath(r)])
              n == Len(stored)
          IN  /\ file' = file
              /\ \A count \in LastCounts :
                   LET got == getLastMessages(loaded', count)
                       k == IF count <= 0 THEN 0
                            ELSE IF count < n THEN count ELSE n
                   IN  /\ Len(got) = k
                       /\ \A i \in 1..k :
                            /\ got[i].id = stored[n - k + i].id
                            /\ got[i].sender = stored[n - k + i].sender
                            /\ got[i].content = stored[n - k + i].content
                            /\ got[i].type = stored[n - k + i].type
                            /\ toISOString(got[i].timestamp)
                                 = stored[n - k + i].timestamp ]_vars
\* A reader loaded a full log, of which getLastMessages gives nothing for the
\* count 0, the newest entry for the count 1 and everything for a larger
\* count.
C39_Witness ==
  /\ loaded.called /\ loaded.ok /\ ~loaded.null
  /\ Len(loaded.room.messages) = MAX_MESSAGES
  /\ getLastMessages(loaded, 0) = << >>
  /\ getLastMessages(loaded, 1) = << loaded.room.messages[MAX_MESSAGES] >>
  /\ getLastMessages(loaded, MAX_MESSAGES + 1) = loaded.room.messages
  /\ \E t \in Tasks : loaded.room.messages[MAX_MESSAGES].id = << t, 1 >>

\* C40: a manager whose initialize has not completed has no call inside
\* atomicUpdateChatRoom, has written no file and holds no lock; each of its
\* sendMessage, heartbeat and getMyName calls fails with 'ChatManager not
\* initialized' and leaves files, locks and rooms as they are.
C40_UninitializedTouchesNothing ==
  /\ [](\A t \in Tasks :
          myIdentity[t] = "null" =>
            /\ pc[t] = "idle" /\ ~updated[t] /\ saves[t] = << 0, 0 >>
            /\ released[t] = 0
            /\ \A n \in FileNames : t \notin lockDir[n])
  /\ [][ \A t \in Tasks :
           (myIdentity[t] = "null" /\ result'[t] # result[t]) =>
             /\ result'[t] = "ChatManager not initialized"
             /\ file' = file /\ lockDir' = lockDir /\ persisted' = persisted
             /\ chatRoom' = chatRoom /\ pc' = pc /\ acked' = acked ]_vars
\* A manager was called while its loadOrCreateIdentity had resolved and
\* myIdentity was not assigned yet: the call failed and the room has no file;
\* the other manager, initialized, has completed a call.
C40_Witness ==
  \E t, u \in Tasks :
    /\ myIdentity[t] = "null" /\ idPc[ProcOf(t)] = "done"
    /\ result[t] = "ChatManager not initialized"
    /\ myIdentity[u] # "null" /\ pc[u] = "done" /\ result[u] = "ok"

====
